---- MODULE Spec2Model ----
(***************************************************************************)
(* Ephemeris resilience pipeline of solar_system_explore_3d:               *)
(*   src/app/api/ephemeris/route.ts   GET handler (resolve)                *)
(*   src/services/cacheService.ts     Redis cache layer                    *)
(*   src/services/nasaClient.ts       Horizons client and rate limiter     *)
(* A request runs to its next await in one step (JavaScript run-to-        *)
(* completion); the awaits are the Redis round trips, the rate-limit timer *)
(* and the upstream HTTP call.                                             *)
(***************************************************************************)
EXTENDS Integers, Sequences, FiniteSets, TLC

VARIABLES
    redisConfigured,   \* UPSTASH_REDIS_REST_URL and _TOKEN are both set
    redisClient,       \* cacheService.ts module variable redisClient
    store,             \* content of the Redis store, by cache key
    now,               \* Date.now(), in milliseconds
    lastRequestTime,   \* nasaClient.ts module variable lastRequestTime
    req,               \* per request slot: locals of GET plus observations
    lastSend,          \* observation: start time of the latest upstream call
    sendGap,           \* observation: separation of the two latest starts
    cacheOp,           \* a direct call of the cache layer and its result
    horizons,          \* a direct call of the Horizons client and its result
    hook,              \* the useEphemeris hook of one mounted component
    orbit,             \* an OrbitLine component and the path it draws
    loading            \* the useLoadingProgress hook of the page

vars == <<redisConfigured, redisClient, store, now, lastRequestTime, req,
          lastSend, sendGap, cacheOp, horizons, hook, orbit, loading>>

\* the parts of the state the GET handler does not touch
others == <<cacheOp, horizons, hook, orbit, loading>>

-----------------------------------------------------------------------------
(* Bounds of the model *)

MaxIds == 2          \* longest explicit ids= list
TickMs == 1000       \* granularity of the clock
MaxClock == 2500     \* the clock stops here

(* Program constants *)

MIN_REQUEST_INTERVAL_MS == 1000

SUN == "10"
ALL_PLANET_IDS == <<"10", "399", "599">>
Bodies == {ALL_PLANET_IDS[k] : k \in 1..Len(ALL_PLANET_IDS)}

Requests == {"r1", "r2"}
Dates == {"2024-01-15", "not-a-date"}
NoParam == <<>>           \* ids= absent or empty: idsParam is falsy
null == [isNull |-> TRUE]

Range(s) == {s[k] : k \in 1..Len(s)}

\* ids= values: duplicate-free lists of catalog ids, or no parameter
IdsParams ==
    {s \in UNION {[1..n -> Bodies] : n \in 1..MaxIds} :
        \A p, q \in 1..Len(s) : p # q => s[p] # s[q]}

\* new Date(targetDate).getTime() is NaN for an unparsable date, and
\* toISOString() of the resulting Invalid Date throws RangeError
IsValidDate(d) == d = "2024-01-15"

-----------------------------------------------------------------------------
(* Records *)

NasaRecord(b, d) == [bodyId |-> b, position |-> <<"horizons", b, d>>]
SunRecord == [bodyId |-> SUN, position |-> <<"0", "0", "0">>]
FallbackRecord(b) == [bodyId |-> b, position |-> <<"fallback_planets", b, "mean">>]

fallbackData == [k \in 1..Len(ALL_PLANET_IDS) |-> FallbackRecord(ALL_PLANET_IDS[k])]
FallbackRecords == Range(fallbackData)

\* variant: the catalog is returned unfiltered
getFallbackData_Unfiltered(bodyIds) == fallbackData

getFallbackData(bodyIds) ==
    SelectSeq(fallbackData, LAMBDA item : item.bodyId \in Range(bodyIds))

-----------------------------------------------------------------------------
(* Cache layer *)

TTL_SLOW_PLANETS == 86400
TTL_INNER_PLANETS == 21600
TTL_FAST_BODIES == 3600
SLOW_PLANET_IDS == {"599", "699", "799", "899"}
FAST_BODY_IDS == {"399", "301"}

\* variant: one TTL for every body
getTTL_Global(bodyId) == TTL_INNER_PLANETS

\* cacheService.ts 64-72
getTTL(bodyId) ==
    IF bodyId \in FAST_BODY_IDS THEN TTL_FAST_BODIES
    ELSE IF bodyId \in SLOW_PLANET_IDS THEN TTL_SLOW_PLANETS
    ELSE TTL_INNER_PLANETS

getCacheKey(bodyId, date) == <<"ephemeris", bodyId, date>>
Keys == {getCacheKey(b, d) : b \in Bodies, d \in Dates}

\* the handle getRedisClient() returns, and the handle it leaves stored
getRedisClient(client, configured) ==
    IF client # "null" THEN client
    ELSE IF ~configured THEN "null"
    ELSE "client"

\* getCachedEphemeris: the value under the key, or null when the client is
\* missing, the key is absent, or redis.get throws
getCachedEphemeris(client, st, bodyId, date, getThrows) ==
    IF client = "null" THEN null
    ELSE IF getThrows THEN null
    ELSE IF st[getCacheKey(bodyId, date)] = null THEN null
    ELSE st[getCacheKey(bodyId, date)].value

\* setCachedEphemeris: the store after one write; unchanged when the client
\* is missing or redis.set throws
setCachedEphemeris(client, st, bodyId, date, data, setThrows) ==
    IF client = "null" \/ setThrows THEN st
    ELSE [st EXCEPT ![getCacheKey(bodyId, date)] =
              [value |-> data, ex |-> getTTL(bodyId)]]

\* setCachedBulkEphemeris: one setCachedEphemeris per element of dataArray;
\* failing is the set of indices whose redis.set throws
RECURSIVE setCachedBulkEphemeris(_, _, _, _, _, _)
setCachedBulkEphemeris(client, st, date, dataArray, failing, k) ==
    IF k > Len(dataArray) THEN st
    ELSE setCachedBulkEphemeris(client,
             setCachedEphemeris(client, st, dataArray[k].bodyId, date,
                                dataArray[k], k \in failing),
             date, dataArray, failing, k + 1)

-----------------------------------------------------------------------------
(* GET handler: pure parts *)

IdleRequest ==
    [pc |-> "idle", bodyIds |-> <<>>, requestedDate |-> "2024-01-15",
     forceRefresh |-> FALSE, cached |-> <<>>, missing |-> <<>>,
     pending |-> {}, bodiesToFetch |-> <<>>, i |-> 1, freshData |-> <<>>,
     wakeAt |-> 0, response |-> [status |-> 0],
     \* observations
     calls |-> <<>>,      \* bodies fetchBodyEphemeris was invoked for
     fetchedOk |-> {},    \* bodies whose fetch returned a record
     fetchedNull |-> {},  \* bodies whose fetch returned null
     threw |-> FALSE,     \* the catch block of GET ran
     toCache |-> <<>>,    \* dataArray passed to setCachedBulkEphemeris
     repeat |-> FALSE,    \* the preceding call had the same arguments
     quiet |-> TRUE]      \* no TTL expiry and no failed redis call since
                          \* the preceding call began

\* variant: the degraded lookup loses the first id
NoClientLookup_DropsFirst(loc) ==
    [loc EXCEPT !.cached = <<>>, !.missing = Tail(loc.bodyIds)]

\* cacheService.ts 127-131: getCachedBulkEphemeris without a client
NoClientLookup(loc) ==
    [loc EXCEPT !.cached = <<>>, !.missing = loc.bodyIds]

bodiesToFetchOf(missing, bodyIds) ==
    IF Len(missing) > 0 THEN missing ELSE bodyIds

DetermineSource(cached, freshData) ==
    IF Len(cached) > 0 /\ Len(freshData) = 0 THEN "CACHE_HIT"
    ELSE "NASA_LIVE"

\* variant: a null result replaces the batch by the fallback of that body
PushFetchResult_WholeBatch(freshData, bodyId, data) ==
    IF data # null THEN Append(freshData, data)
    ELSE getFallbackData(<<bodyId>>)

\* route.ts 126-134: the record pushed for one fetch result
PushFetchResult(freshData, bodyId, data) ==
    IF data # null THEN Append(freshData, data)
    ELSE IF Len(getFallbackData(<<bodyId>>)) > 0
         THEN Append(freshData, getFallbackData(<<bodyId>>)[1])
         ELSE freshData

\* route.ts 142-164
Respond(loc) ==
    [loc EXCEPT !.pc = "done",
                !.response = [status |-> 200,
                              data |-> loc.cached \o loc.freshData,
                              source |-> DetermineSource(loc.cached, loc.freshData),
                              cacheHits |-> Len(loc.cached),
                              cacheMisses |-> Len(loc.missing)]]

\* variant: the catch block answers with an error status
CatchResponse_Error(bodyIds) ==
    [status |-> 500, error |-> "Internal Server Error"]

\* route.ts 166-182
CatchResponse(bodyIds) ==
    [status |-> 200, data |-> getFallbackData(bodyIds),
     source |-> "FALLBACK_DATASET"]

Catch(loc) ==
    [loc EXCEPT !.pc = "done", !.threw = TRUE,
                !.response = CatchResponse(loc.bodyIds)]

\* route.ts 112-122: the Sun entries the loop handles without awaiting
RECURSIVE LoopSun(_)
LoopSun(loc) ==
    IF loc.i <= Len(loc.bodiesToFetch) /\ loc.bodiesToFetch[loc.i] = SUN
    THEN LoopSun([loc EXCEPT !.freshData = Append(@, SunRecord), !.i = @ + 1])
    ELSE loc

\* nasaClient.ts 64-72: the delay enforceRateLimit waits, 0 for none
RateLimitDelay(clock, last) ==
    IF clock - last < MIN_REQUEST_INTERVAL_MS
    THEN MIN_REQUEST_INTERVAL_MS - (clock - last)
    ELSE 0

\* nasaClient.ts 74 and 188-212: lastRequestTime is set, then the stop date
\* is computed (throwing for an unparsable date) and the HTTP call starts
AfterRateLimit(loc, clock) ==
    IF IsValidDate(loc.requestedDate)
    THEN [loc |-> [loc EXCEPT !.pc = "fetching"], last |-> clock, sent |-> TRUE]
    ELSE [loc |-> Catch(loc), last |-> clock, sent |-> FALSE]

\* route.ts 124 -> nasaClient.ts 186: fetchBodyEphemeris is entered
EnterFetch(loc, clock, last) ==
    LET called == [loc EXCEPT !.calls = Append(@, loc.bodiesToFetch[loc.i])]
        delay == RateLimitDelay(clock, last)
    IN  IF delay > 0
        THEN [loc |-> [called EXCEPT !.pc = "sleeping", !.wakeAt = clock + delay],
              last |-> last, sent |-> FALSE]
        ELSE AfterRateLimit(called, clock)

\* variant: the fresh data is not written through
AfterLoop_NoWrite(loc) == Respond(loc)

\* route.ts 137-140: after the loop
AfterLoop(loc) ==
    IF Len(loc.freshData) > 0
    THEN [loc EXCEPT !.pc = "write", !.toCache = loc.freshData]
    ELSE Respond(loc)

\* the loop of route.ts 112-135 from index loc.i up to its next await
Continue(loc, clock, last) ==
    LET l1 == LoopSun(loc)
    IN  IF l1.i > Len(l1.bodiesToFetch)
        THEN [loc |-> AfterLoop(l1), last |-> last, sent |-> FALSE]
        ELSE EnterFetch(l1, clock, last)

\* variant: no early return when every body was a hit
Decide_NoEarlyReturn(loc, clock, last) ==
    Continue([loc EXCEPT !.bodiesToFetch =
                  bodiesToFetchOf(loc.missing, loc.bodyIds), !.i = 1],
             clock, last)

\* route.ts 92-110: after the cache step
Decide(loc, clock, last) ==
    IF Len(loc.missing) = 0 /\ Len(loc.cached) > 0
    THEN [loc |-> [loc EXCEPT !.pc = "done",
                     !.response = [status |-> 200, data |-> loc.cached,
                                   source |-> "CACHE_HIT",
                                   cacheHits |-> Len(loc.cached),
                                   cacheMisses |-> 0]],
          last |-> last, sent |-> FALSE]
    ELSE Continue([loc EXCEPT !.bodiesToFetch =
                        bodiesToFetchOf(loc.missing, loc.bodyIds), !.i = 1],
                  clock, last)

\* the observations of the upstream call starts
Observe(res) ==
    /\ lastSend' = IF res.sent THEN now ELSE lastSend
    /\ sendGap' = IF res.sent /\ lastSend >= 0 THEN now - lastSend ELSE sendGap

Apply(r, res) ==
    /\ req' = [req EXCEPT ![r] = res.loc]
    /\ lastRequestTime' = res.last
    /\ Observe(res)

-----------------------------------------------------------------------------
(* Actions *)

Init ==
    /\ redisConfigured \in BOOLEAN
    /\ redisClient = "null"
    /\ store = [k \in Keys |-> null]
    /\ now = MIN_REQUEST_INTERVAL_MS
    /\ lastRequestTime = 0
    /\ req = [r \in Requests |-> IdleRequest]
    /\ lastSend = -1
    /\ sendGap = -1
    /\ cacheOp = [pc |-> "unused"]
    /\ horizons = [pc |-> "unused"]
    /\ hook = [pc |-> "unused"]
    /\ orbit = [pc |-> "unused"]
    /\ loading = [pc |-> "unused"]

\* route.ts 67-90: a request arrives
Start(r, idsParam, dateParam, forceParam) ==
    /\ req[r].pc \in {"idle", "done"}
    /\ LET bodyIds == IF idsParam = NoParam THEN ALL_PLANET_IDS ELSE idsParam
           same == /\ req[r].pc = "done"
                   /\ req[r].bodyIds = bodyIds
                   /\ req[r].requestedDate = dateParam
                   /\ req[r].forceRefresh = forceParam
           loc0 == [IdleRequest EXCEPT
                      !.bodyIds = bodyIds, !.requestedDate = dateParam,
                      !.forceRefresh = forceParam, !.missing = bodyIds,
                      !.repeat = same,
                      !.quiet = IF same THEN req[r].quiet ELSE TRUE]
           client == getRedisClient(redisClient, redisConfigured)
       IN  IF forceParam
           THEN /\ Apply(r, Decide(loc0, now, lastRequestTime))
                /\ UNCHANGED redisClient
           ELSE IF client = "null"
           THEN /\ Apply(r, Decide(NoClientLookup(loc0), now, lastRequestTime))
                /\ UNCHANGED redisClient
           ELSE /\ req' = [req EXCEPT ![r] =
                       [loc0 EXCEPT !.pc = "lookup",
                                    !.missing = <<>>, !.pending = Range(bodyIds)]]
                /\ redisClient' = client
                /\ UNCHANGED <<lastRequestTime, lastSend, sendGap>>
    /\ UNCHANGED <<redisConfigured, store, now>>
    /\ UNCHANGED others

\* cacheService.ts 138-145: one per-body lookup of the Promise.all completes
CacheGet(r, bodyId, getThrows) ==
    /\ req[r].pc = "lookup"
    /\ bodyId \in req[r].pending
    /\ LET loc == req[r]
           data == getCachedEphemeris(redisClient, store, bodyId,
                                      loc.requestedDate, getThrows)
           l1 == [loc EXCEPT
                    !.pending = @ \ {bodyId},
                    !.cached = IF data # null THEN Append(@, data) ELSE @,
                    !.missing = IF data # null THEN @ ELSE Append(@, bodyId),
                    !.quiet = @ /\ ~getThrows]
       IN  IF l1.pending = {}
           THEN Apply(r, Decide(l1, now, lastRequestTime))
           ELSE /\ req' = [req EXCEPT ![r] = l1]
                /\ UNCHANGED <<lastRequestTime, lastSend, sendGap>>
    /\ UNCHANGED <<redisConfigured, redisClient, store, now>>
    /\ UNCHANGED others

\* nasaClient.ts 69-74: the rate-limit timer fires
Wake(r) ==
    /\ req[r].pc = "sleeping"
    /\ now >= req[r].wakeAt
    /\ Apply(r, AfterRateLimit([req[r] EXCEPT !.wakeAt = 0], now))
    /\ UNCHANGED <<redisConfigured, redisClient, store, now>>
    /\ UNCHANGED others

\* nasaClient.ts 212-242 and route.ts 126-134: the upstream call completes
FetchReturn(r, outcome) ==
    /\ req[r].pc = "fetching"
    /\ LET loc == req[r]
           bodyId == loc.bodiesToFetch[loc.i]
           data == IF outcome = "ok" THEN NasaRecord(bodyId, loc.requestedDate)
                   ELSE null
           l1 == [loc EXCEPT
                    !.freshData = PushFetchResult(@, bodyId, data),
                    !.i = @ + 1,
                    !.fetchedOk = IF data # null THEN @ \cup {bodyId} ELSE @,
                    !.fetchedNull = IF data = null THEN @ \cup {bodyId} ELSE @]
       IN  Apply(r, Continue(l1, now, lastRequestTime))
    /\ UNCHANGED <<redisConfigured, redisClient, store, now>>
    /\ UNCHANGED others

FetchOutcomes == {"ok", "http_error", "no_result", "parse_failure", "network_error"}

\* route.ts 138-164: the cache write, then the response.  The handler awaits
\* the join of all writes and reads nothing in between, so the writes of one
\* setCachedBulkEphemeris call are one step
CacheWrite(r, failing) ==
    /\ req[r].pc = "write"
    /\ LET loc == req[r]
           client == getRedisClient(redisClient, redisConfigured)
       IN  /\ failing \subseteq 1..Len(loc.toCache)
           /\ client = "null" => failing = {}
           /\ store' = setCachedBulkEphemeris(client, store, loc.requestedDate,
                                              loc.toCache, failing, 1)
           /\ redisClient' = client
           /\ req' = [req EXCEPT ![r] =
                        Respond([loc EXCEPT !.quiet = @ /\ failing = {}])]
    /\ UNCHANGED <<redisConfigured, now, lastRequestTime, lastSend, sendGap>>
    /\ UNCHANGED others

\* Redis drops a key whose EX time has passed
Expire(key) ==
    /\ store[key] # null
    /\ store' = [store EXCEPT ![key] = null]
    /\ req' = [r \in Requests |-> [req[r] EXCEPT !.quiet = FALSE]]
    /\ UNCHANGED <<redisConfigured, redisClient, now, lastRequestTime,
                   lastSend, sendGap>>
    /\ UNCHANGED others

\* time passes
Tick ==
    /\ now + TickMs <= MaxClock
    /\ now' = now + TickMs
    /\ UNCHANGED <<redisConfigured, redisClient, store, lastRequestTime, req,
                   lastSend, sendGap>>
    /\ UNCHANGED others

\* the steps of the requests in slots R, with inputs from Ids, Ds and Fs
Step(R, Ids, Ds, Fs) ==
    \/ \E r \in R, ids \in Ids, d \in Ds, f \in Fs : Start(r, ids, d, f)
    \/ \E r \in R, b \in Bodies, t \in BOOLEAN : CacheGet(r, b, t)
    \/ \E r \in R : Wake(r)
    \/ \E r \in R, o \in FetchOutcomes : FetchReturn(r, o)
    \/ \E r \in R, f \in SUBSET (1..Len(ALL_PLANET_IDS)) : CacheWrite(r, f)
    \/ \E k \in Keys : Expire(k)
    \/ Tick

\* one client issuing requests one after the other
Next == Step({"r1"}, IdsParams \cup {NoParam}, Dates, BOOLEAN)

Spec == Init /\ [][Next]_vars

\* two requests in the process at the same time
ConcurrentIds == {<<"399">>, <<"599">>}
NextConcurrent == Step(Requests, ConcurrentIds, {"2024-01-15"}, BOOLEAN)

SpecConcurrent == Init /\ [][NextConcurrent]_vars

-----------------------------------------------------------------------------
(* Cache layer called directly *)

\* how a call of the cache layer settles
Resolved(data) == [rejected |-> FALSE, data |-> data, ok |-> data # null]

\* variant: the catch block of getCachedEphemeris rethrows
CatchGet_Rethrow(bodyId) == [rejected |-> TRUE, data |-> null, ok |-> FALSE]

\* cacheService.ts 91-94: catch of getCachedEphemeris, log and return null
CatchGet(bodyId) == [rejected |-> FALSE, data |-> null, ok |-> FALSE]

\* variant: the catch block of setCachedEphemeris rethrows
CatchSet_Rethrow(bodyId) == [rejected |-> TRUE, data |-> null, ok |-> FALSE]

\* cacheService.ts 113-116: catch of setCachedEphemeris, log and return false
CatchSet(bodyId) == [rejected |-> FALSE, data |-> null, ok |-> FALSE]

\* cacheService.ts 80-95: the promise getCachedEphemeris returns
getCachedEphemerisPromise(client, st, bodyId, date, getThrows) ==
    IF client # "null" /\ getThrows THEN CatchGet(bodyId)
    ELSE Resolved(getCachedEphemeris(client, st, bodyId, date, FALSE))

\* cacheService.ts 100-117: the promise setCachedEphemeris returns
setCachedEphemerisPromise(client, bodyId, setThrows) ==
    IF client = "null" THEN [rejected |-> FALSE, data |-> null, ok |-> FALSE]
    ELSE IF setThrows THEN CatchSet(bodyId)
    ELSE [rejected |-> FALSE, data |-> null, ok |-> TRUE]

\* variant: a miss discards the hits collected so far
AccountLookup_MissResets(loc, bodyId, data) ==
    IF data # null THEN [loc EXCEPT !.cached = Append(@, data)]
    ELSE [loc EXCEPT !.cached = <<>>, !.missing = Append(@, bodyId)]

\* cacheService.ts 140-145: one settled lookup goes to cached or to missing
AccountLookup(loc, bodyId, data) ==
    IF data # null THEN [loc EXCEPT !.cached = Append(@, data)]
    ELSE [loc EXCEPT !.missing = Append(@, bodyId)]

NoOutcome == [b \in Bodies |-> "none"]

\* the instances new Redis(...) yields, in the order of their construction
Instances == <<"client", "client2", "client3">>

\* cacheService.ts 43-49: new Redis({ url, token }) inside the try; the catch
\* logs and gives null
NewRedis(made, constructThrows) ==
    IF constructThrows THEN "null"
    ELSE Instances[IF made < Len(Instances) THEN made + 1 ELSE Len(Instances)]

\* variant: the stored handle is not consulted
getRedisClientCall_AlwaysNew(client, configured, made, constructThrows) ==
    IF ~configured
    THEN [redis |-> "null", redisClient |-> client, made |-> 0, threw |-> FALSE]
    ELSE LET redis == NewRedis(made, constructThrows)
         IN  [redis |-> redis,
              redisClient |-> IF redis = "null" THEN client ELSE redis,
              made |-> IF redis = "null" THEN 0 ELSE 1,
              threw |-> redis = "null"]

\* cacheService.ts 32-50: what one call of getRedisClient returns (redis), the
\* handle it leaves stored (redisClient) and the number of instances it
\* constructed; made is the number constructed before the call
getRedisClientCall(client, configured, made, constructThrows) ==
    IF client # "null"
    THEN [redis |-> client, redisClient |-> client, made |-> 0, threw |-> FALSE]
    ELSE IF ~configured
    THEN [redis |-> "null", redisClient |-> client, made |-> 0, threw |-> FALSE]
    ELSE LET redis == NewRedis(made, constructThrows)
         IN  [redis |-> redis,
              redisClient |-> IF redis = "null" THEN client ELSE redis,
              made |-> IF redis = "null" THEN 0 ELSE 1,
              threw |-> redis = "null"]

\* the call c of the cache layer with what its getRedisClient call g did
Seen(c, g) ==
    [c EXCEPT !.made = cacheOp.made + g.made,
              !.handles = cacheOp.handles \cup ({g.redis} \ {"null"}),
              !.redis = g.redis,
              !.threw = cacheOp.threw \/ g.threw]

IdleCacheOp ==
    [pc |-> "idle", op |-> "none", bodyIds |-> <<>>, date |-> "2024-01-15",
     pending |-> {}, cached |-> <<>>, missing |-> <<>>,
     data |-> null, ok |-> FALSE, rejected |-> FALSE,
     \* observations
     noClient |-> FALSE,   \* the call found no client
     storeThrew |-> FALSE, \* a redis.get or redis.set of the call threw
     order |-> <<>>,       \* bodies in the order their lookups settled
     outcome |-> NoOutcome,\* what the lookup of each body came to
     before |-> null,      \* what the key of a single set held before
     after |-> null,       \* and what it held when the set returned
     made |-> 0,           \* Redis instances constructed by all calls so far
     handles |-> {},       \* the instances getRedisClient has returned so far
     redis |-> "null",     \* what getRedisClient returned to this call
     threw |-> FALSE]      \* new Redis(...) has thrown in some call so far

InitCache ==
    /\ redisConfigured \in BOOLEAN
    /\ redisClient = "null"
    /\ store = [k \in Keys |-> null]
    /\ now = MIN_REQUEST_INTERVAL_MS
    /\ lastRequestTime = 0
    /\ req = [r \in Requests |-> IdleRequest]
    /\ lastSend = -1
    /\ sendGap = -1
    /\ cacheOp = IdleCacheOp
    /\ horizons = [pc |-> "unused"]
    /\ hook = [pc |-> "unused"]
    /\ orbit = [pc |-> "unused"]
    /\ loading = [pc |-> "unused"]

pipeline == <<now, lastRequestTime, req, lastSend, sendGap, horizons, hook,
              orbit, loading>>

\* cacheService.ts 80-95: a caller awaits getCachedEphemeris(bodyId, date)
CallGet(bodyId, date, getThrows, constructThrows) ==
    /\ cacheOp.pc # "bulk"
    /\ LET g == getRedisClientCall(redisClient, redisConfigured, cacheOp.made,
                                   constructThrows)
           p == getCachedEphemerisPromise(g.redis, store, bodyId, date, getThrows)
       IN  /\ g.redis = "null" => ~getThrows
           /\ redisClient' = g.redisClient
           /\ cacheOp' = Seen([IdleCacheOp EXCEPT
                                 !.pc = "done", !.op = "get",
                                 !.bodyIds = <<bodyId>>, !.date = date,
                                 !.data = p.data, !.ok = p.ok,
                                 !.rejected = p.rejected,
                                 !.noClient = g.redis = "null",
                                 !.storeThrew = getThrows], g)
    /\ UNCHANGED <<redisConfigured, store>>
    /\ UNCHANGED pipeline

\* cacheService.ts 100-117: a caller awaits setCachedEphemeris(bodyId, date, data)
CallSet(bodyId, date, setThrows, constructThrows) ==
    /\ cacheOp.pc # "bulk"
    /\ LET g == getRedisClientCall(redisClient, redisConfigured, cacheOp.made,
                                   constructThrows)
           p == setCachedEphemerisPromise(g.redis, bodyId, setThrows)
           st == setCachedEphemeris(g.redis, store, bodyId, date,
                                    NasaRecord(bodyId, date), setThrows)
       IN  /\ g.redis = "null" => ~setThrows
           /\ redisClient' = g.redisClient
           /\ store' = st
           /\ cacheOp' = Seen([IdleCacheOp EXCEPT
                                 !.pc = "done", !.op = "set",
                                 !.bodyIds = <<bodyId>>, !.date = date,
                                 !.ok = p.ok, !.rejected = p.rejected,
                                 !.noClient = g.redis = "null",
                                 !.storeThrew = setThrows,
                                 !.before = store[getCacheKey(bodyId, date)],
                                 !.after = st[getCacheKey(bodyId, date)]], g)
    /\ UNCHANGED redisConfigured
    /\ UNCHANGED pipeline

\* cacheService.ts 123-131: a caller awaits getCachedBulkEphemeris(bodyIds, date)
CallGetBulk(bodyIds, date, constructThrows) ==
    /\ cacheOp.pc # "bulk"
    /\ LET g == getRedisClientCall(redisClient, redisConfigured, cacheOp.made,
                                   constructThrows)
           c0 == Seen([IdleCacheOp EXCEPT !.op = "getBulk", !.bodyIds = bodyIds,
                                          !.date = date], g)
       IN  /\ redisClient' = g.redisClient
           /\ cacheOp' =
                IF g.redis = "null"
                THEN [NoClientLookup(c0) EXCEPT !.pc = "done", !.noClient = TRUE]
                ELSE IF bodyIds = <<>> THEN [c0 EXCEPT !.pc = "done"]
                ELSE [c0 EXCEPT !.pc = "bulk", !.pending = Range(bodyIds)]
    /\ UNCHANGED <<redisConfigured, store>>
    /\ UNCHANGED pipeline

\* cacheService.ts 138-148: the lookup of one body settles, in any order
BulkGetSettle(bodyId, getThrows) ==
    /\ cacheOp.pc = "bulk"
    /\ bodyId \in cacheOp.pending
    /\ LET p == getCachedEphemerisPromise(redisClient, store, bodyId,
                                          cacheOp.date, getThrows)
           c1 == [AccountLookup(cacheOp, bodyId, p.data) EXCEPT
                    !.pending = @ \ {bodyId},
                    !.order = Append(@, bodyId),
                    !.storeThrew = @ \/ getThrows,
                    !.outcome[bodyId] = IF getThrows THEN "threw"
                                        ELSE IF p.data = null THEN "nothing"
                                        ELSE "record"]
       IN  cacheOp' =
             IF p.rejected THEN [c1 EXCEPT !.pc = "done", !.rejected = TRUE]
             ELSE IF c1.pending = {} THEN [c1 EXCEPT !.pc = "done"]
             ELSE c1
    /\ UNCHANGED <<redisConfigured, redisClient, store>>
    /\ UNCHANGED pipeline

\* cacheService.ts 154-161: a caller awaits setCachedBulkEphemeris(date, dataArray);
\* the getRedisClient call of the first setCachedEphemeris is the one that
\* may construct
CallSetBulk(bodyIds, date, failing, constructThrows) ==
    /\ cacheOp.pc # "bulk"
    /\ failing \subseteq 1..Len(bodyIds)
    /\ LET g == getRedisClientCall(redisClient, redisConfigured, cacheOp.made,
                                   constructThrows)
           dataArray == [k \in 1..Len(bodyIds) |-> NasaRecord(bodyIds[k], date)]
           p(k) == setCachedEphemerisPromise(g.redis, bodyIds[k], k \in failing)
       IN  /\ g.redis = "null" => failing = {}
           /\ redisClient' = g.redisClient
           /\ store' = setCachedBulkEphemeris(g.redis, store, date, dataArray,
                                              failing, 1)
           /\ cacheOp' = Seen([IdleCacheOp EXCEPT
                                 !.pc = "done", !.op = "setBulk",
                                 !.bodyIds = bodyIds, !.date = date,
                                 !.rejected = \E k \in 1..Len(bodyIds) : p(k).rejected,
                                 !.noClient = g.redis = "null",
                                 !.storeThrew = failing # {}], g)
    /\ UNCHANGED redisConfigured
    /\ UNCHANGED pipeline

\* Redis drops a key whose EX time has passed, also between two lookups
ExpireKey(key) ==
    /\ store[key] # null
    /\ store' = [store EXCEPT ![key] = null]
    /\ UNCHANGED <<redisConfigured, redisClient, cacheOp>>
    /\ UNCHANGED pipeline

\* the date of the calls made on the cache layer
CacheDates == {"2024-01-15"}

NextCache ==
    \/ \E b \in Bodies, d \in CacheDates, t, c \in BOOLEAN : CallGet(b, d, t, c)
    \/ \E b \in Bodies, d \in CacheDates, t, c \in BOOLEAN : CallSet(b, d, t, c)
    \/ \E ids \in IdsParams, d \in CacheDates, c \in BOOLEAN :
          CallGetBulk(ids, d, c)
    \/ \E b \in Bodies, t \in BOOLEAN : BulkGetSettle(b, t)
    \/ \E ids \in IdsParams, d \in CacheDates, c \in BOOLEAN :
          \E f \in SUBSET (1..Len(ids)) : CallSetBulk(ids, d, f, c)
    \/ \E k \in Keys : ExpireKey(k)

SpecCache == InitCache /\ [][NextCache]_vars

-----------------------------------------------------------------------------
(* Horizons client: strings and numbers of parseVectorFromResponse *)

\* a string is a sequence of one-character strings; indices into it are
\* zero-based as in JavaScript

Digits == <<"0", "1", "2", "3", "4", "5", "6", "7", "8", "9">>
IsDigit(c) == \E k \in 1..10 : Digits[k] = c
DigitVal(c) == (CHOOSE k \in 1..10 : Digits[k] = c) - 1
IsSpace(c) == c \in {" ", "\n"}
IsSign(c) == c \in {"-", "+"}
ToUpper(c) == IF c = "x" THEN "X" ELSE IF c = "y" THEN "Y"
              ELSE IF c = "z" THEN "Z" ELSE IF c = "v" THEN "V"
              ELSE IF c = "e" THEN "E" ELSE c

\* the character at zero-based index i, "" past the end
CharAt(s, i) == IF i >= 0 /\ i < Len(s) THEN s[i + 1] ELSE ""

\* s has sub at zero-based index i
StartsAt(s, sub, i) ==
    /\ i + Len(sub) <= Len(s)
    /\ \A k \in 1..Len(sub) : s[i + k] = sub[k]

\* String.prototype.indexOf
indexOf(s, sub) ==
    IF \E i \in 0..Len(s) : StartsAt(s, sub, i)
    THEN CHOOSE i \in 0..Len(s) :
             StartsAt(s, sub, i) /\ \A j \in 0..(i - 1) : ~StartsAt(s, sub, j)
    ELSE -1

\* String.prototype.includes
includes(s, sub) == indexOf(s, sub) # -1

\* String.prototype.substring: indices are clamped, and swapped when the
\* first is the larger
substring(s, a, b) ==
    LET Clamp(n) == IF n < 0 THEN 0 ELSE IF n > Len(s) THEN Len(s) ELSE n
        lo == IF Clamp(a) <= Clamp(b) THEN Clamp(a) ELSE Clamp(b)
        hi == IF Clamp(a) <= Clamp(b) THEN Clamp(b) ELSE Clamp(a)
    IN  SubSeq(s, lo + 1, hi)

\* String.prototype.trim
RECURSIVE trimStart(_)
trimStart(s) == IF s # <<>> /\ IsSpace(Head(s)) THEN trimStart(Tail(s)) ELSE s
RECURSIVE trimEnd(_)
trimEnd(s) ==
    IF s # <<>> /\ IsSpace(s[Len(s)]) THEN trimEnd(SubSeq(s, 1, Len(s) - 1))
    ELSE s
trim(s) == trimEnd(trimStart(s))

\* String.prototype.split('\n')
RECURSIVE split(_)
split(s) ==
    LET nl == indexOf(s, <<"\n">>)
    IN  IF nl = -1 THEN <<s>>
        ELSE <<SubSeq(s, 1, nl)>> \o split(SubSeq(s, nl + 2, Len(s)))

\* lines.map(line => line.trim()).filter(Boolean)
trimmedLines(lines) ==
    SelectSeq([k \in 1..Len(lines) |-> trim(lines[k])], LAMBDA l : l # <<>>)

\* Array.prototype.find: the first element with the property, undefined if
\* none; hits are the indices of the elements with the property
undefined == [isUndefined |-> TRUE]
find(lines, hits) ==
    IF hits # {}
    THEN lines[CHOOSE k \in hits : \A j \in hits : k <= j]
    ELSE undefined

\* a number as m * 10^e / den, in lowest power of ten; NaN is not a number
NaN == [isNaN |-> TRUE]
RECURSIVE Norm(_, _, _)
Norm(m, e, den) ==
    IF m = 0 THEN [m |-> 0, e |-> 0, den |-> 1]
    ELSE IF m % 10 = 0 THEN Norm(m \div 10, e + 1, den)
    ELSE [m |-> m, e |-> e, den |-> den]
Mul(a, b) ==
    IF a = NaN \/ b = NaN THEN NaN
    ELSE Norm(a.m * b.m, a.e + b.e, a.den * b.den)

\* the zero-based index after the run of digits that starts at index i
RECURSIVE SkipDigits(_, _)
SkipDigits(s, i) == IF IsDigit(CharAt(s, i)) THEN SkipDigits(s, i + 1) ELSE i
RECURSIVE SkipSpaces(_, _)
SkipSpaces(s, i) == IF IsSpace(CharAt(s, i)) THEN SkipSpaces(s, i + 1) ELSE i

\* the integer written by the digits of s from index i up to index j - 1
RECURSIVE DigitsVal(_, _, _)
DigitsVal(s, i, j) ==
    IF i >= j THEN 0 ELSE DigitsVal(s, i, j - 1) * 10 + DigitVal(CharAt(s, j - 1))

RECURSIVE Pow10(_)
Pow10(n) == IF n <= 0 THEN 1 ELSE 10 * Pow10(n - 1)

\* the number written by the decimal literal at the head of s: its sign ends
\* at index a, its integer digits at b, its fraction digits run from c to d,
\* and an exponent counts only when it has a digit
Literal(s, a, b, c, d) ==
    LET hasE == ToUpper(CharAt(s, d)) = "E"
        f == IF hasE /\ IsSign(CharAt(s, d + 1)) THEN d + 2 ELSE d + 1
        g == IF hasE THEN SkipDigits(s, f) ELSE f
        exp == IF g > f
               THEN (IF CharAt(s, d + 1) = "-" THEN -1 ELSE 1) * DigitsVal(s, f, g)
               ELSE 0
        mant == DigitsVal(s, a, b) * Pow10(d - c) + DigitsVal(s, c, d)
    IN  Norm((IF CharAt(s, 0) = "-" THEN -1 ELSE 1) * mant, exp - (d - c), 1)

\* parseFloat: the value of the longest prefix that is a decimal literal
parseFloat(str) ==
    LET s == trimStart(str)
        a == IF IsSign(CharAt(s, 0)) THEN 1 ELSE 0
        b == SkipDigits(s, a)
        c == IF CharAt(s, b) = "." THEN b + 1 ELSE b
        d == SkipDigits(s, c)
    IN  IF b = a /\ d = c THEN NaN ELSE Literal(s, a, b, c, d)

-----------------------------------------------------------------------------
(* Horizons client: parseVectorFromResponse *)

AU_TO_KM == [m |-> 1495978707, e |-> -1, den |-> 1]
AU_PER_DAY_TO_KM_PER_SEC == [AU_TO_KM EXCEPT !.den = 86400]

NoMatch == [isNoMatch |-> TRUE]
SOE == <<"$", "$", "S", "O", "E">>
EOE == <<"$", "$", "E", "O", "E">>

\* the index after the part E?[+-]?\d* of the number, which begins at index d
ExponentEnd(s, d) ==
    LET e == IF ToUpper(CharAt(s, d)) = "E" THEN d + 1 ELSE d
        f == IF IsSign(CharAt(s, e)) THEN e + 1 ELSE e
    IN  SkipDigits(s, f)

\* variant: the number may have no digit before the point
NumberMatch_NoDigitNeeded(s, p) ==
    LET a == IF IsSign(CharAt(s, p)) THEN p + 1 ELSE p
        b == SkipDigits(s, a)
        c == IF CharAt(s, b) = "." THEN b + 1 ELSE b
        d == SkipDigits(s, c)
    IN  substring(s, p, ExponentEnd(s, d))

\* nasaClient.ts 139: the group ([-+]?\d+\.?\d*E?[+-]?\d*) matched at index p,
\* case-insensitive; every part after \d+ is optional, so the greedy match
\* is the match
NumberMatch(s, p) ==
    LET a == IF IsSign(CharAt(s, p)) THEN p + 1 ELSE p
        b == SkipDigits(s, a)
        c == IF CharAt(s, b) = "." THEN b + 1 ELSE b
        d == SkipDigits(s, c)
    IN  IF b = a THEN NoMatch ELSE substring(s, p, ExponentEnd(s, d))

\* the regular expression  label \s* = \s* (number)  tried at index i
MatchAt(s, label, i) ==
    LET j == SkipSpaces(s, i + Len(label))
    IN  IF /\ i + Len(label) <= Len(s)
           /\ \A k \in 1..Len(label) : ToUpper(s[i + k]) = label[k]
           /\ CharAt(s, j) = "="
        THEN NumberMatch(s, SkipSpaces(s, j + 1))
        ELSE NoMatch

\* nasaClient.ts 139-141, 159-161: line.match(/label\s*=\s*(number)/i)[1],
\* the group of the leftmost match
match(s, label) ==
    IF \E i \in 0..Len(s) : MatchAt(s, label, i) # NoMatch
    THEN MatchAt(s, label,
                 CHOOSE i \in 0..Len(s) :
                     /\ MatchAt(s, label, i) # NoMatch
                     /\ \A j \in 0..(i - 1) : MatchAt(s, label, j) = NoMatch)
    ELSE NoMatch

\* variant: the two non-principal axes are not swapped
Remap_NoSwap(x, y, z, factor) ==
    <<Mul(x, factor), Mul(y, factor), Mul(z, factor)>>

\* nasaClient.ts 153-157, 168-172: scene (x, y, z) from source (x, y, z)
Remap(x, y, z, factor) ==
    <<Mul(x, factor), Mul(z, factor), Mul(y, factor)>>

\* variant: failure only when both markers are absent
MarkersMissing_Both(soeIndex, eoeIndex) == soeIndex = -1 /\ eoeIndex = -1

\* nasaClient.ts 101: a marker was not found
MarkersMissing(soeIndex, eoeIndex) == soeIndex = -1 \/ eoeIndex = -1

\* nasaClient.ts 153-157, 168-172: the vector of three matched groups
Vector(xMatch, yMatch, zMatch, factor) ==
    Remap(parseFloat(xMatch), parseFloat(yMatch), parseFloat(zMatch), factor)

\* nasaClient.ts 159-173: the velocity, when its line and its groups are there
Velocity(velocityLine, vxMatch, vyMatch, vzMatch) ==
    IF velocityLine = undefined THEN undefined
    ELSE IF vxMatch = NoMatch \/ vyMatch = NoMatch \/ vzMatch = NoMatch
    THEN undefined
    ELSE Vector(vxMatch, vyMatch, vzMatch, AU_PER_DAY_TO_KM_PER_SEC)

\* nasaClient.ts 143-174: the result for the three groups of the position line
Vectors(xMatch, yMatch, zMatch, velocityLine) ==
    IF xMatch = NoMatch \/ yMatch = NoMatch \/ zMatch = NoMatch THEN null
    ELSE [position |-> Vector(xMatch, yMatch, zMatch, AU_TO_KM),
          velocity |-> Velocity(velocityLine,
                                match(velocityLine, <<"V", "X">>),
                                match(velocityLine, <<"V", "Y">>),
                                match(velocityLine, <<"V", "Z">>))]

\* nasaClient.ts 134-174: the result for the two vector lines
parseLines(positionLine, velocityLine) ==
    IF positionLine = undefined THEN null
    ELSE Vectors(match(positionLine, <<"X">>), match(positionLine, <<"Y">>),
                 match(positionLine, <<"Z">>), velocityLine)

\* nasaClient.ts 108-174: the result for the lines of the data section
parseSection(lines) ==
    IF Len(lines) = 0 THEN null
    ELSE parseLines(
             find(lines, {k \in 1..Len(lines) :
                             /\ includes(lines[k], <<"X", " ", "=">>)
                             /\ includes(lines[k], <<"Y", " ", "=">>)
                             /\ includes(lines[k], <<"Z", " ", "=">>)}),
             find(lines, {k \in 1..Len(lines) :
                             /\ includes(lines[k], <<"V", "X", "=">>)
                             /\ includes(lines[k], <<"V", "Y", "=">>)
                             /\ includes(lines[k], <<"V", "Z", "=">>)}))

\* nasaClient.ts 96-175
parseVectorFromResponse(result) ==
    LET soeIndex == indexOf(result, SOE)
        eoeIndex == indexOf(result, EOE)
        dataSection == trim(substring(result, soeIndex + 5, eoeIndex))
    IN  IF MarkersMissing(soeIndex, eoeIndex) THEN null
        ELSE parseSection(trimmedLines(split(dataSection)))

-----------------------------------------------------------------------------
(* Horizons client: the bodies of the responses *)

MaxPad == 1   \* largest number of blanks between "=" and a value

\* the values a vector line may carry: text, what kind of text it is, and
\* the number it denotes
Sci(text, m, e) == [text |-> text, kind |-> "sci", value |-> Norm(m, e, 1)]
One == Sci(<<"1", ".", "0", "E", "+", "0", "0">>, 1, 0)
Zero == Sci(<<"0", ".", "0", "E", "+", "0", "0">>, 0, 0)
MinusTenth == Sci(<<"-", "1", ".", "0", "E", "-", "0", "1">>, -1, -1)
NotAvailable == [text |-> <<"n", ".", "a", ".">>, kind |-> "junk", value |-> NaN]
Blank == [text |-> <<>>, kind |-> "junk", value |-> NaN]
OneThenJunk == [text |-> <<"1", ".", "0", "a", "b", "c">>, kind |-> "prefix",
                value |-> Norm(1, 0, 1)]
Tokens == {One, Zero, MinusTenth, NotAvailable, Blank, OneThenJunk}

\* what a response body is made of
DefaultShape ==
    [soe |-> TRUE, eoe |-> TRUE, eoeFirst |-> FALSE, date |-> TRUE,
     pos |-> TRUE, x |-> One, y |-> Zero, z |-> Zero, pad |-> 1,
     vel |-> "sci"]
Shapes ==
    {sh \in [soe : BOOLEAN, eoe : BOOLEAN, eoeFirst : BOOLEAN, date : BOOLEAN,
             pos : BOOLEAN, x : Tokens, y : Tokens, z : Tokens,
             pad : 0..MaxPad, vel : {"none", "sci", "junk"}] :
        /\ sh.eoeFirst => sh.soe /\ sh.eoe
        /\ ~sh.pos => sh.x = One /\ sh.y = Zero /\ sh.z = Zero /\ sh.pad = 1}
FewShapes ==
    {DefaultShape,
     [DefaultShape EXCEPT !.soe = FALSE],
     [DefaultShape EXCEPT !.y = NotAvailable],
     [DefaultShape EXCEPT !.x = MinusTenth, !.vel = "none"]}

NL == <<"\n">>
Pad(n) == [k \in 1..n |-> " "]
Header == <<"J", "P", "L", " ", "H", "o", "r", "i", "z", "o", "n", "s">> \o NL
DateLine == <<"2", "4", "6", "0", "3", "2", "5", ".", "5", " ", "=", " ",
              "A", ".", "D", ".", " ", "2", "0", "2", "4">> \o NL
PosLine(sh) ==
    <<" ", "X", " ", "=">> \o Pad(sh.pad) \o sh.x.text
    \o <<" ", "Y", " ", "=">> \o Pad(sh.pad) \o sh.y.text
    \o <<" ", "Z", " ", "=">> \o Pad(sh.pad) \o sh.z.text \o NL
VelLine(sh) ==
    <<" ", "V", "X", "=">> \o Pad(sh.pad)
    \o (IF sh.vel = "junk" THEN NotAvailable.text ELSE Zero.text)
    \o <<" ", "V", "Y", "=">> \o Pad(sh.pad) \o One.text
    \o <<" ", "V", "Z", "=">> \o Pad(sh.pad) \o MinusTenth.text \o NL

\* the text of data.result for a shape, in the layout Horizons uses
Render(sh) ==
    LET first == IF sh.eoeFirst THEN EOE ELSE SOE
        last == IF sh.eoeFirst THEN SOE ELSE EOE
        hasFirst == IF sh.eoeFirst THEN sh.eoe ELSE sh.soe
        hasLast == IF sh.eoeFirst THEN sh.soe ELSE sh.eoe
    IN  Header
        \o (IF hasFirst THEN first \o NL ELSE <<>>)
        \o (IF sh.date THEN DateLine ELSE <<>>)
        \o (IF sh.pos THEN PosLine(sh) ELSE <<>>)
        \o (IF sh.vel # "none" THEN VelLine(sh) ELSE <<>>)
        \o (IF hasLast THEN last \o NL ELSE <<>>)

-----------------------------------------------------------------------------
(* Horizons client called directly *)

Rejected == [rejected |-> TRUE, data |-> null, ok |-> FALSE]

\* what the HTTP exchange of one call comes to
HttpOutcomes == {"network_error", "http_error", "bad_json", "no_result", "result"}

\* nasaClient.ts 232-238: the record built from the parsed vectors
EphemerisRecord(bodyId, parsed) ==
    [bodyId |-> bodyId, position |-> parsed.position,
     velocity |-> parsed.velocity]

\* nasaClient.ts 256-261 (route.ts 115-120): the Sun at the origin
SunAtOrigin ==
    [bodyId |-> SUN, position |-> <<Zero.value, Zero.value, Zero.value>>,
     velocity |-> undefined]

\* nasaClient.ts 225-238: null when the vectors did not parse, else the record
RecordOrNull(bodyId, parsed) ==
    IF parsed = null THEN Resolved(null)
    ELSE Resolved(EphemerisRecord(bodyId, parsed))

\* nasaClient.ts 182-243: the promise fetchBodyEphemeris returns; stopDate
\* (188-191) is computed before the try, toISOString throws for a date that
\* does not parse
fetchBodyEphemeris(bodyId, date, outcome, result) ==
    IF ~IsValidDate(date) THEN Rejected
    ELSE IF outcome \in {"network_error", "bad_json"} THEN Resolved(null)
    ELSE IF outcome = "http_error" THEN Resolved(null)
    ELSE IF outcome = "no_result" THEN Resolved(null)
    ELSE RecordOrNull(bodyId, parseVectorFromResponse(result))

\* nasaClient.ts 265-266: the index of the next id that is not the Sun
RECURSIVE SkipSun(_, _)
SkipSun(ids, i) ==
    IF i <= Len(ids) /\ ids[i] = SUN THEN SkipSun(ids, i + 1) ELSE i

IdleHorizons ==
    [pc |-> "call", op |-> "parse", shape |-> DefaultShape, bodyId |-> "399",
     date |-> "2024-01-15", bodyIds |-> <<>>, i |-> 1, results |-> <<>>,
     parsed |-> null, returned |-> null, rejected |-> FALSE,
     \* observations
     outcome |-> "none",   \* the HTTP outcome of a single fetchBodyEphemeris
     okBodies |-> {},      \* bodies whose call in fetchAllEphemeris gave a record
     nullBodies |-> {}]    \* bodies whose call in fetchAllEphemeris gave null

ClientCalls ==
    {[IdleHorizons EXCEPT !.shape = sh] : sh \in Shapes}
    \cup {[IdleHorizons EXCEPT !.op = "fetchBody", !.bodyId = b, !.date = d] :
             b \in Bodies \ {SUN}, d \in Dates}
    \cup {[IdleHorizons EXCEPT !.op = "fetchAll", !.bodyIds = ids, !.date = d] :
             ids \in IdsParams \cup {NoParam}, d \in Dates}

InitClient ==
    /\ redisConfigured = FALSE
    /\ redisClient = "null"
    /\ store = [k \in Keys |-> null]
    /\ now = MIN_REQUEST_INTERVAL_MS
    /\ lastRequestTime = 0
    /\ req = [r \in Requests |-> IdleRequest]
    /\ lastSend = -1
    /\ sendGap = -1
    /\ cacheOp = [pc |-> "unused"]
    /\ horizons \in ClientCalls
    /\ hook = [pc |-> "unused"]
    /\ orbit = [pc |-> "unused"]
    /\ loading = [pc |-> "unused"]

notClient == <<redisConfigured, redisClient, store, now, lastRequestTime, req,
               lastSend, sendGap, cacheOp, hook, orbit, loading>>

\* nasaClient.ts 96-175: parseVectorFromResponse(result) returns
ParseReturn ==
    /\ horizons.pc = "call" /\ horizons.op = "parse"
    /\ horizons' = [horizons EXCEPT
                      !.pc = "done",
                      !.parsed = parseVectorFromResponse(Render(horizons.shape))]
    /\ UNCHANGED notClient

\* the HTTP exchanges a call for the date can meet: none is begun for a date
\* that does not parse, and only a result has a body
Exchanges(date, bodies) ==
    IF ~IsValidDate(date) THEN {[outcome |-> "network_error", shape |-> DefaultShape]}
    ELSE {[outcome |-> o, shape |-> DefaultShape] : o \in HttpOutcomes \ {"result"}}
         \cup {[outcome |-> "result", shape |-> sh] : sh \in bodies}

\* the call h of the harness once its promise p has settled
Settled(h, p) == [h EXCEPT !.pc = "done", !.returned = p.data,
                           !.rejected = p.rejected]

\* nasaClient.ts 182-243: fetchBodyEphemeris(bodyId, date) settles
FetchBodySettle ==
    /\ horizons.pc = "call" /\ horizons.op = "fetchBody"
    /\ \E x \in Exchanges(horizons.date, Shapes) :
          horizons' = Settled([horizons EXCEPT
                                 !.shape = x.shape,
                                 !.outcome = IF IsValidDate(horizons.date)
                                             THEN x.outcome ELSE "none"],
                              fetchBodyEphemeris(horizons.bodyId, horizons.date,
                                                 x.outcome, Render(x.shape)))
    /\ UNCHANGED notClient

\* nasaClient.ts 248-263: fetchAllEphemeris(bodyIds, date) up to its first await
FetchAllEnter ==
    /\ horizons.pc = "call" /\ horizons.op = "fetchAll"
    /\ LET ids == IF horizons.bodyIds = NoParam
                  THEN SelectSeq(ALL_PLANET_IDS, LAMBDA id : id # SUN)
                  ELSE horizons.bodyIds
           first == SkipSun(ids, 1)
           h1 == [horizons EXCEPT !.bodyIds = ids, !.i = first,
                                  !.results = <<SunAtOrigin>>]
       IN  horizons' = IF first > Len(ids)
                       THEN [h1 EXCEPT !.pc = "done", !.returned = h1.results]
                       ELSE [h1 EXCEPT !.pc = "loop"]
    /\ UNCHANGED notClient

\* nasaClient.ts 264-273: the loop of call h once the promise p of bodyId has
\* settled; a rejection leaves the function at the await
LoopStep(h, bodyId, p) ==
    LET next == SkipSun(h.bodyIds, h.i + 1)
        h1 == [h EXCEPT
                 !.i = next,
                 !.results = IF p.data # null THEN Append(@, p.data) ELSE @,
                 !.okBodies = IF p.data # null THEN @ \cup {bodyId} ELSE @,
                 !.nullBodies = IF p.data = null THEN @ \cup {bodyId} ELSE @]
    IN  IF p.rejected THEN [h EXCEPT !.pc = "done", !.rejected = TRUE]
        ELSE IF next > Len(h.bodyIds)
        THEN [h1 EXCEPT !.pc = "done", !.returned = h1.results]
        ELSE h1

\* nasaClient.ts 264-273: the awaited fetchBodyEphemeris of the loop settles
FetchAllSettle(outcome, sh) ==
    /\ horizons.pc = "loop"
    /\ [outcome |-> outcome, shape |-> sh] \in Exchanges(horizons.date, FewShapes)
    /\ horizons' = LoopStep(horizons, horizons.bodyIds[horizons.i],
                            fetchBodyEphemeris(horizons.bodyIds[horizons.i],
                                               horizons.date, outcome, Render(sh)))
    /\ UNCHANGED notClient

NextClient ==
    \/ ParseReturn
    \/ FetchBodySettle
    \/ FetchAllEnter
    \/ \E o \in HttpOutcomes, sh \in FewShapes : FetchAllSettle(o, sh)

SpecClient == InitClient /\ [][NextClient]_vars

-----------------------------------------------------------------------------
(* useEphemeris: the hook of one mounted component *)

MaxCalls == 4     \* fetchEphemeris invocations followed in one behaviour
MaxUserCalls == 2 \* of them begun by the effect, retry() or refresh()
MaxRecords == 2   \* longest data array of a response

MAX_RETRIES == 3

HookDates == {"2024-01-15", "2024-01-16"}
Sources == {"NASA_LIVE", "CACHE_HIT", "FALLBACK_DATASET"}

Infinity == [isInfinity |-> TRUE]

\* the global isFinite applied to a coordinate
isFinite(c) == c \notin {NaN, Infinity, undefined}

\* records a response may carry
ValidEarth ==
    [bodyId |-> "399", name |-> "Earth",
     position |-> [x |-> One.value, y |-> Zero.value, z |-> Zero.value]]
ValidJupiter ==
    [bodyId |-> "599", name |-> "Jupiter",
     position |-> [x |-> Zero.value, y |-> Zero.value, z |-> MinusTenth.value]]
NoName == [ValidEarth EXCEPT !.name = ""]
BadCoordinate == [ValidJupiter EXCEPT !.position.y = NaN]
ValidSun ==
    [bodyId |-> "10", name |-> "Sun",
     position |-> [x |-> Zero.value, y |-> Zero.value, z |-> Zero.value]]
NoBodyId == [ValidSun EXCEPT !.bodyId = ""]

\* per body of a response, in the order of the response: the record as it
\* should be and a record the filter has to remove
Items == <<{ValidEarth, NoName}, {ValidJupiter, BadCoordinate},
           {ValidSun, NoBodyId}>>

\* useWebGLError.ts 169-182: the test of the filter
IsValidItem(item) ==
    IF item.bodyId = "" \/ item.name = "" \/ item.position = undefined
    THEN FALSE
    ELSE /\ isFinite(item.position.x)
         /\ isFinite(item.position.y)
         /\ isFinite(item.position.z)

\* useWebGLError.ts 168-183
validateData(data) == SelectSeq(data, IsValidItem)

\* lib/fallback_planets.json as loadFallbackData returns it (185-195)
HookFallbackRecord(b, name) ==
    [bodyId |-> b, name |-> name,
     position |-> [x |-> One.value, y |-> Zero.value, z |-> One.value],
     meanElements |-> TRUE]
loadFallbackData ==
    validateData(<<HookFallbackRecord("10", "Sun"),
                   HookFallbackRecord("399", "Earth"),
                   HookFallbackRecord("599", "Jupiter")>>)

\* what the fetch of /api/ephemeris can come to
DataArrays ==
    UNION {{d \in [1..n -> UNION Range(Items)] : \A k \in 1..n : d[k] \in Items[k]} :
              n \in 0..(IF MaxRecords < Len(Items) THEN MaxRecords ELSE Len(Items))}
Responses ==
    {[kind |-> "ok", source |-> s, data |-> d] : s \in Sources, d \in DataArrays}
Failure(kind) == [kind |-> kind, source |-> "none", data |-> <<>>]
Failures == {Failure(k) : k \in {"network_error", "http_error", "bad_format",
                                 "bad_json"}}
AbortError == Failure("abort")

\* useWebGLError.ts 239: the query of the request; date is its only parameter
Url(date) == [date |-> date, force |-> "null"]

\* route.ts 73, 79: forceParam === 'true'
forceRefresh(url) == url.force = "true"

\* route.ts 86-90, 146-151: the tags a response to the request can carry;
\* CACHE_HIT needs a cached record, and the cache is read only when the
\* request is not forced
SourcesServed(url) ==
    IF forceRefresh(url) THEN Sources \ {"CACHE_HIT"} ELSE Sources

\* useWebGLError.ts 206-212
InitialState ==
    [data |-> <<>>, isLoading |-> FALSE, error |-> null, source |-> "null",
     isFallback |-> FALSE]

\* one invocation of fetchEphemeris and its AbortController
NoInvocation ==
    [pc |-> "unused", retryAttempt |-> 0, date |-> "2024-01-15",
     aborted |-> FALSE, timedOut |-> FALSE, error |-> null,
     raw |-> <<>>,       \* observation: the data array its fetch delivered
     origin |-> "none"]  \* observation: the effect, retry() or refresh()
                         \* began the call or the call it is a retry of
DoneInvocation == [NoInvocation EXCEPT !.pc = "done"]

IdleHook ==
    [mounted |-> FALSE, autoFetch |-> TRUE, date |-> "2024-01-15",
     state |-> InitialState,
     abortControllerRef |-> 0,   \* number of the invocation whose controller it holds
     retryCountRef |-> 0,
     made |-> 0,                 \* invocations so far
     userCalls |-> 0,            \* of them begun by the effect, retry(), refresh()
     inv |-> [i \in 1..MaxCalls |-> NoInvocation],
     \* observations
     writer |-> [kind |-> "none", raw |-> <<>>, origin |-> "none", call |-> 0,
                 date |-> "2024-01-15"],
                                 \* the latest write of state.data: by the
                                 \* success path or the fallback path, the
                                 \* data array that call had read, who began
                                 \* the call, its user call and its date
     errorAttempt |-> 0,         \* retryAttempt of the call that set the error
     errorOwnTimeout |-> FALSE,  \* that call was aborted by its own timer
     calls |-> [i \in 1..MaxCalls |-> 0],
                                 \* per invocation, the number of the user call
                                 \* (effect, retry(), refresh()) it belongs to
     staleAbort |-> FALSE,       \* an invocation of an older user call has
                                 \* aborted the fetch of a newer one
     staleWrite |-> FALSE]       \* an invocation of an older user call has
                                 \* called setState after a newer one began

\* useWebGLError.ts 270-272, 311-320: the error a failed attempt is filed under
ErrorOf(outcome) ==
    IF outcome.kind = "network_error"
    THEN [type |-> "NETWORK_ERROR", canRetry |-> TRUE]
    ELSE IF outcome.kind = "http_error"
    THEN [type |-> "NASA_API_ERROR", canRetry |-> TRUE]
    ELSE IF outcome.kind = "bad_format"
    THEN [type |-> "VALIDATION_ERROR", canRetry |-> FALSE]
    ELSE [type |-> "UNKNOWN_ERROR", canRetry |-> TRUE]

TimeoutError == [type |-> "TIMEOUT_ERROR", canRetry |-> TRUE]

\* useWebGLError.ts 218-232: fetchEphemeris(retryAttempt) of the render with
\* the given date, up to its await of fetch
Enter(h, retryAttempt, date, origin, call) ==
    LET cur == h.abortControllerRef
        j == h.made + 1
        abortedPrev ==
            IF cur # 0 /\ h.inv[cur].pc = "fetch"
            THEN [h.inv EXCEPT ![cur].aborted = TRUE]
            ELSE h.inv
    IN  [h EXCEPT
           !.made = j,
           !.abortControllerRef = j,
           !.inv = [abortedPrev EXCEPT
                      ![j] = [NoInvocation EXCEPT !.pc = "fetch",
                                                  !.retryAttempt = retryAttempt,
                                                  !.date = date,
                                                  !.origin = origin]],
           !.state = [@ EXCEPT !.isLoading = TRUE, !.error = null],
           !.errorAttempt = 0,
           !.errorOwnTimeout = FALSE,
           !.calls[j] = call,
           !.staleAbort = @ \/ (/\ cur # 0
                                /\ h.inv[cur].pc = "fetch"
                                /\ ~h.inv[cur].aborted
                                /\ call < h.calls[cur]),
           !.staleWrite = @ \/ call < h.userCalls]

\* variant: isFallback is left as it was
OnData_KeepFlag(h, i, outcome) ==
    LET validatedData == validateData(outcome.data)
    IN  [h EXCEPT
           !.state = [data |-> validatedData, isLoading |-> FALSE,
                      error |-> null, source |-> outcome.source,
                      isFallback |-> h.state.isFallback],
           !.retryCountRef = 0,
           !.inv[i] = DoneInvocation,
           !.writer = [kind |-> "data", raw |-> outcome.data,
                       origin |-> h.inv[i].origin, call |-> h.calls[i],
                       date |-> h.inv[i].date],
           !.staleWrite = @ \/ h.calls[i] < h.userCalls]

\* useWebGLError.ts 251-268: a response with a data array has been read
OnData(h, i, outcome) ==
    LET validatedData == validateData(outcome.data)
    IN  [h EXCEPT
           !.state = [data |-> validatedData, isLoading |-> FALSE,
                      error |-> null, source |-> outcome.source,
                      isFallback |-> outcome.source = "FALLBACK_DATASET"],
           !.retryCountRef = 0,
           !.inv[i] = DoneInvocation,
           !.writer = [kind |-> "data", raw |-> outcome.data,
                       origin |-> h.inv[i].origin, call |-> h.calls[i],
                       date |-> h.inv[i].date],
           !.staleWrite = @ \/ h.calls[i] < h.userCalls]

\* variant: any timed-out attempt below MAX_RETRIES is retried
ShouldRetryAbort_AnyAttempt(retryAttempt) == retryAttempt < MAX_RETRIES

\* useWebGLError.ts 279-281: isTimeout && retryAttempt < MAX_RETRIES
ShouldRetryAbort(retryAttempt) ==
    LET isTimeout == retryAttempt = 0
    IN  isTimeout /\ retryAttempt < MAX_RETRIES

\* useWebGLError.ts 277-299: the fetch was aborted
OnAbort(h, i) ==
    LET me == h.inv[i]
    IN  IF ShouldRetryAbort(me.retryAttempt)
        THEN [h EXCEPT !.inv[i] = [me EXCEPT !.pc = "retryTimer"]]
        ELSE [h EXCEPT
                !.state = [@ EXCEPT !.isLoading = FALSE, !.error = TimeoutError],
                !.inv[i] = DoneInvocation,
                !.errorAttempt = me.retryAttempt,
                !.errorOwnTimeout = me.timedOut,
                !.staleWrite = @ \/ h.calls[i] < h.userCalls]

\* variant: a VALIDATION_ERROR is retried like the others
OnError_RetryAll(h, i, outcome) ==
    LET me == h.inv[i]
        err == ErrorOf(outcome)
    IN  IF me.retryAttempt < MAX_RETRIES
        THEN [h EXCEPT !.retryCountRef = me.retryAttempt + 1,
                       !.inv[i] = [me EXCEPT !.pc = "retryTimer"]]
        ELSE [h EXCEPT !.inv[i] = [me EXCEPT !.pc = "fallback", !.error = err,
                                             !.raw = outcome.data]]

\* useWebGLError.ts 301-324: another error was thrown
OnError(h, i, outcome) ==
    LET me == h.inv[i]
        err == ErrorOf(outcome)
    IN  IF err.canRetry /\ me.retryAttempt < MAX_RETRIES
        THEN [h EXCEPT !.retryCountRef = me.retryAttempt + 1,
                       !.inv[i] = [me EXCEPT !.pc = "retryTimer"]]
        ELSE [h EXCEPT !.inv[i] = [me EXCEPT !.pc = "fallback", !.error = err,
                                             !.raw = outcome.data]]

\* useWebGLError.ts 234-340: what fetchEphemeris does when its fetch settles
OnSettle(h, i, outcome) ==
    IF outcome.kind = "abort" THEN OnAbort(h, i)
    ELSE IF outcome.kind = "ok" /\ Len(validateData(outcome.data)) > 0
    THEN OnData(h, i, outcome)
    ELSE OnError(h, i, outcome)

InitHook ==
    /\ redisConfigured = FALSE
    /\ redisClient = "null"
    /\ store = [k \in Keys |-> null]
    /\ now = MIN_REQUEST_INTERVAL_MS
    /\ lastRequestTime = 0
    /\ req = [r \in Requests |-> IdleRequest]
    /\ lastSend = -1
    /\ sendGap = -1
    /\ cacheOp = [pc |-> "unused"]
    /\ horizons = [pc |-> "unused"]
    /\ hook \in {[IdleHook EXCEPT !.autoFetch = a] : a \in BOOLEAN}
    /\ orbit = [pc |-> "unused"]
    /\ loading = [pc |-> "unused"]

notHook == <<redisConfigured, redisClient, store, now, lastRequestTime, req,
             lastSend, sendGap, cacheOp, horizons, orbit, loading>>

\* useWebGLError.ts 357-360: the effect runs after the first render
Mount ==
    /\ ~hook.mounted
    /\ hook' = IF hook.autoFetch
               THEN Enter([hook EXCEPT !.mounted = TRUE, !.userCalls = 1], 0,
                          hook.date, "effect", 1)
               ELSE [hook EXCEPT !.mounted = TRUE]
    /\ UNCHANGED notHook

\* useWebGLError.ts 357-369: the date option changes; the cleanup of the
\* effect aborts the controller, then the effect runs again
SetDate(date) ==
    /\ hook.mounted /\ date # hook.date
    /\ hook.made < MaxCalls /\ hook.userCalls < MaxUserCalls
    /\ LET cur == hook.abortControllerRef
           cleaned == IF cur # 0 /\ hook.inv[cur].pc = "fetch"
                      THEN [hook EXCEPT !.inv[cur].aborted = TRUE, !.date = date]
                      ELSE [hook EXCEPT !.date = date]
       IN  hook' = IF hook.autoFetch
                   THEN Enter([cleaned EXCEPT !.userCalls = @ + 1], 0, date,
                              "effect", hook.userCalls + 1)
                   ELSE cleaned
    /\ UNCHANGED notHook

\* useWebGLError.ts 344-347: retry()
Retry ==
    /\ hook.mounted /\ hook.made < MaxCalls /\ hook.userCalls < MaxUserCalls
    /\ hook' = Enter([hook EXCEPT !.retryCountRef = 0, !.userCalls = @ + 1], 0,
                     hook.date, "retry", hook.userCalls + 1)
    /\ UNCHANGED notHook

\* useWebGLError.ts 350-353: refresh()
Refresh ==
    /\ hook.mounted /\ hook.made < MaxCalls /\ hook.userCalls < MaxUserCalls
    /\ hook' = Enter([hook EXCEPT !.retryCountRef = 0, !.userCalls = @ + 1], 0,
                     hook.date, "refresh", hook.userCalls + 1)
    /\ UNCHANGED notHook

\* useWebGLError.ts 236-238: the timeout timer of an in-flight fetch fires
TimeoutFires(i) ==
    /\ hook.inv[i].pc = "fetch" /\ ~hook.inv[i].aborted
    /\ hook' = [hook EXCEPT !.inv[i].aborted = TRUE, !.inv[i].timedOut = TRUE]
    /\ UNCHANGED notHook

\* useWebGLError.ts 240-276: the awaited fetch settles; an aborted fetch
\* rejects with an AbortError
FetchSettle(i, outcome) ==
    /\ hook.inv[i].pc = "fetch"
    /\ hook.inv[i].aborted <=> outcome = AbortError
    /\ outcome.kind = "ok" =>
          outcome.source \in SourcesServed(Url(hook.inv[i].date))
    /\ hook' = OnSettle(hook, i, outcome)
    /\ UNCHANGED notHook

\* useWebGLError.ts 283, 322: the retry timer fires
RetryTimerFires(i) ==
    /\ hook.inv[i].pc = "retryTimer"
    /\ hook.made < MaxCalls
    /\ hook' = Enter([hook EXCEPT !.inv[i] = DoneInvocation],
                     hook.inv[i].retryAttempt + 1, hook.inv[i].date,
                     hook.inv[i].origin, hook.calls[i])
    /\ UNCHANGED notHook

\* useWebGLError.ts 326-340: the fallback data has been imported
FallbackLoaded(i) ==
    /\ hook.inv[i].pc = "fallback"
    /\ hook' = [hook EXCEPT
                  !.state = [data |-> loadFallbackData, isLoading |-> FALSE,
                             error |-> hook.inv[i].error,
                             source |-> "FALLBACK_DATASET", isFallback |-> TRUE],
                  !.inv[i] = DoneInvocation,
                  !.writer = [kind |-> "fallback", raw |-> hook.inv[i].raw,
                              origin |-> hook.inv[i].origin,
                              call |-> hook.calls[i],
                              date |-> hook.inv[i].date],
                  !.staleWrite = @ \/ hook.calls[i] < hook.userCalls]
    /\ UNCHANGED notHook

NextHook ==
    \/ Mount
    \/ \E d \in HookDates : SetDate(d)
    \/ Retry
    \/ Refresh
    \/ \E i \in 1..MaxCalls : TimeoutFires(i)
    \/ \E i \in 1..MaxCalls, o \in Responses \cup Failures \cup {AbortError} :
          FetchSettle(i, o)
    \/ \E i \in 1..MaxCalls : RetryTimerFires(i)
    \/ \E i \in 1..MaxCalls : FallbackLoaded(i)

SpecHook == InitHook /\ [][NextHook]_vars

-----------------------------------------------------------------------------
(* OrbitLine: numbers of the path *)

MaxA == 3   \* largest semi-major axis, in scene units

DEFAULT_SEGMENTS == 128

\* a real number n * sqrt(r) / d, with r = 1 for a rational one
Num(n, r, d) ==
    IF n = 0 \/ r = 0 THEN [n |-> 0, r |-> 1, d |-> d]
    ELSE [n |-> n, r |-> r, d |-> d]
Rational(n, d) == Num(n, 1, d)
Times(u, v) == Num(u.n * v.n, u.r * v.r, u.d * v.d)
\* the difference of two rational numbers
Minus(u, v) == Num(u.n * v.d - v.n * u.d, 1, u.d * v.d)
Negated(u) == Num(-u.n, u.r, u.d)

\* Math.sqrt of a rational number n / d whose d is a square
MathSqrt(u) == Num(1, u.n, CHOOSE root \in 1..u.d : root * root = u.d)

\* the square of a number, in millionths (d divides 1000)
SqMillionths(u) == u.n * u.n * u.r * (1000000 \div (u.d * u.d))

\* Math.cos of the first quarter turn in hundredths, by steps of 1/128 turn
QuarterCos ==
    <<100, 100, 100, 99, 98, 97, 96, 94, 92, 90, 88, 86, 83, 80, 77, 74, 71,
      67, 63, 60, 56, 51, 47, 43, 38, 34, 29, 24, 20, 15, 10, 5, 0>>

\* Math.cos of an angle of j/128 turn, to two decimals
MathCos(j) ==
    LET k == j % 128
    IN  Rational(IF k <= 32 THEN QuarterCos[k + 1]
                 ELSE IF k <= 64 THEN -QuarterCos[64 - k + 1]
                 ELSE IF k <= 96 THEN -QuarterCos[k - 64 + 1]
                 ELSE QuarterCos[128 - k + 1], 100)

\* Math.sin of the same angle: its sign is that of the half turn and its
\* square is 1 - cos^2
MathSin(j) ==
    LET k == j % 128
        c == MathCos(j).n
    IN  Num(IF k < 64 THEN 1 ELSE -1, 10000 - c * c, 100)

\* THREE.EllipseCurve(0, 0, xRadius, yRadius, 0, 2 * Math.PI, false, 0)
\* .getPoint(k / divisions): angle = aStartAngle + t * deltaAngle
getPoint(xRadius, yRadius, k, divisions) ==
    LET angle == k * (128 \div divisions)
    IN  [x |-> Times(xRadius, MathCos(angle)),
         y |-> Times(yRadius, MathSin(angle))]

\* Curve.getPoints(divisions): divisions + 1 points
getPoints(xRadius, yRadius, divisions) ==
    [k \in 1..(divisions + 1) |-> getPoint(xRadius, yRadius, k - 1, divisions)]

\* variant: the ellipse stays centred on the origin
ShiftToFocus_None(p, focusOffset) ==
    [x |-> p.x, y |-> Rational(0, 1), z |-> p.y]

\* route.ts 263-267, 429-433: new THREE.Vector3(p.x - focusOffset, 0, p.y)
ShiftToFocus(p, focusOffset) ==
    [x |-> Minus(p.x, focusOffset), y |-> Rational(0, 1), z |-> p.y]

\* route.ts 243-268, 409-434: the points of the useMemo
Points(semiMajorAxis, eccentricity, segments) ==
    LET semiMinor ==
            Times(semiMajorAxis,
                  MathSqrt(Minus(Rational(1, 1),
                                 Times(eccentricity, eccentricity))))
        focusOffset == Times(semiMajorAxis, eccentricity)
        curvePoints == getPoints(semiMajorAxis, semiMinor, segments)
    IN  [k \in 1..Len(curvePoints) |-> ShiftToFocus(curvePoints[k], focusOffset)]

-----------------------------------------------------------------------------
(* OrbitLine: rotations of the nested groups *)

\* degToRad (route.ts 217-219, 375-377) of a multiple of 90 degrees, in
\* units of pi/2
degToRad(degrees) == degrees \div 90

\* cosine and sine of an angle of q units of pi/2
QuarterTurnCos(q) == <<1, 0, -1, 0>>[(q % 4) + 1]
QuarterTurnSin(q) == <<0, 1, 0, -1>>[(q % 4) + 1]

\* c * u + s * v for a cosine and a sine of which one is zero
Combine(c, u, s, v) == IF c # 0 THEN Num(c * u.n, u.r, u.d) ELSE Num(s * v.n, v.r, v.d)

\* THREE.Matrix4.makeRotationX / makeRotationY / makeRotationZ applied to p
RotateX(q, p) ==
    [x |-> p.x,
     y |-> Combine(QuarterTurnCos(q), p.y, -QuarterTurnSin(q), p.z),
     z |-> Combine(QuarterTurnCos(q), p.z, QuarterTurnSin(q), p.y)]
RotateY(q, p) ==
    [x |-> Combine(QuarterTurnCos(q), p.x, QuarterTurnSin(q), p.z),
     y |-> p.y,
     z |-> Combine(QuarterTurnCos(q), p.z, -QuarterTurnSin(q), p.x)]
RotateZ(q, p) ==
    [x |-> Combine(QuarterTurnCos(q), p.x, -QuarterTurnSin(q), p.y),
     y |-> Combine(QuarterTurnCos(q), p.y, QuarterTurnSin(q), p.x),
     z |-> p.z]

\* a group's rotation={[x, y, z]}: Euler angles in the order XYZ, so the
\* rotation about Z acts on the point first
ApplyEuler(rotation, p) ==
    RotateX(rotation[1], RotateY(rotation[2], RotateZ(rotation[3], p)))

\* the world position of a point drawn inside nested groups, outermost first
RECURSIVE ToWorld(_, _)
ToWorld(groups, p) ==
    IF groups = <<>> THEN p
    ELSE ApplyEuler(Head(groups), ToWorld(Tail(groups), p))

\* variant: the inclination group is the outermost
Groups_TiltFirst(longAscNode, inclination, longPerihelion) ==
    <<<<degToRad(inclination), 0, 0>>,
      <<0, degToRad(longAscNode), 0>>,
      <<0, degToRad(longPerihelion - longAscNode), 0>>>>

\* route.ts 272-298, 436-455: the rotations of the three nested groups
Groups(longAscNode, inclination, longPerihelion) ==
    LET Omega == degToRad(longAscNode)
        i == degToRad(inclination)
        omega == degToRad(longPerihelion - longAscNode)
    IN  <<<<0, Omega, 0>>, <<i, 0, 0>>, <<0, omega, 0>>>>

-----------------------------------------------------------------------------
(* OrbitLine: one component *)

Eccentricities == {Rational(en, 10) : en \in 0..9}
RightAngles == {0, 90, 180, 270}

IdleOrbit ==
    [pc |-> "props", semiMajorAxis |-> 1, eccentricity |-> Rational(0, 10),
     inclination |-> 0, longAscNode |-> 0, longPerihelion |-> 0,
     segments |-> DEFAULT_SEGMENTS,
     points |-> <<>>,   \* the points handed to <Line>
     groups |-> <<>>,   \* the rotations of the groups around it
     renders |-> 0]

InitOrbit ==
    /\ redisConfigured = FALSE
    /\ redisClient = "null"
    /\ store = [k \in Keys |-> null]
    /\ now = MIN_REQUEST_INTERVAL_MS
    /\ lastRequestTime = 0
    /\ req = [r \in Requests |-> IdleRequest]
    /\ lastSend = -1
    /\ sendGap = -1
    /\ cacheOp = [pc |-> "unused"]
    /\ horizons = [pc |-> "unused"]
    /\ hook = [pc |-> "unused"]
    /\ orbit \in {[IdleOrbit EXCEPT !.semiMajorAxis = a, !.eccentricity = e,
                                    !.inclination = i, !.longAscNode = n,
                                    !.longPerihelion = p] :
                     a \in 1..MaxA, e \in Eccentricities,
                     i \in RightAngles, n \in RightAngles, p \in RightAngles}
    /\ loading = [pc |-> "unused"]

notOrbit == <<redisConfigured, redisClient, store, now, lastRequestTime, req,
              lastSend, sendGap, cacheOp, horizons, hook, loading>>

\* route.ts 229-298, 395-455: OrbitLine renders
RenderOrbit ==
    /\ orbit.pc = "props"
    /\ orbit' = [orbit EXCEPT
                   !.pc = "rendered",
                   !.points = Points(Rational(orbit.semiMajorAxis, 1),
                                     orbit.eccentricity, orbit.segments),
                   !.groups = Groups(orbit.longAscNode, orbit.inclination,
                                     orbit.longPerihelion)]
    /\ UNCHANGED notOrbit

\* the parent renders the component with another orientation; the points of
\* the useMemo are kept (their dependencies are a, e and segments)
Reorient(inclination, longAscNode, longPerihelion) ==
    /\ orbit.pc = "rendered" /\ orbit.renders < 1
    /\ orbit' = [orbit EXCEPT
                   !.inclination = inclination, !.longAscNode = longAscNode,
                   !.longPerihelion = longPerihelion,
                   !.groups = Groups(longAscNode, inclination, longPerihelion),
                   !.renders = @ + 1]
    /\ UNCHANGED notOrbit

NextOrbit ==
    \/ RenderOrbit
    \/ \E i, n, p \in RightAngles : Reorient(i, n, p)

SpecOrbit == InitOrbit /\ [][NextOrbit]_vars

-----------------------------------------------------------------------------
(* useLoadingProgress: the hook of the page *)

MaxFetches == 5   \* fetches of useEphemeris that begin in one behaviour

TOTAL_TEXTURES == 9

NoInterval == [active |-> FALSE, count |-> 0]

\* useLoadingProgress.ts 26-28, with the props of the first render
\* (page.tsx 63-66) and the interval of the effect
IdleLoading ==
    [isApiLoading |-> FALSE, hasApiData |-> FALSE,
     texturesLoaded |-> 0, textureLoadingComplete |-> FALSE,
     textureSimulationStartedRef |-> FALSE,
     interval |-> NoInterval,   \* the timer of the effect and its count
     fetches |-> 0]             \* observation: fetches begun so far

\* useLoadingProgress.ts 31-36
stage(l) ==
    IF l.textureLoadingComplete THEN "ready"
    ELSE IF l.hasApiData /\ ~l.isApiLoading THEN "loading_textures"
    ELSE IF l.isApiLoading THEN "fetching_data"
    ELSE "initializing"

\* variant: the effect starts the interval whenever the stage is entered
Effect_Restart(l) ==
    IF stage(l) # "loading_textures" THEN l
    ELSE [l EXCEPT !.textureSimulationStartedRef = TRUE,
                   !.interval = [active |-> TRUE, count |-> 0]]

\* useLoadingProgress.ts 39-55: the body of the effect
Effect(l) ==
    IF stage(l) # "loading_textures" THEN l
    ELSE IF l.textureSimulationStartedRef THEN l
    ELSE [l EXCEPT !.textureSimulationStartedRef = TRUE,
                   !.interval = [active |-> TRUE, count |-> 0]]

\* useLoadingProgress.ts 57: the cleanup the effect returned
Cleanup(l) == [l EXCEPT !.interval.active = FALSE]

\* a render after the state l has become m: the effect depends on [stage]
\* (58), so a changed stage runs the cleanup of the last effect and then
\* the effect
Rerender(l, m) ==
    IF stage(m) = stage(l) THEN m ELSE Effect(Cleanup(m))

InitLoading ==
    /\ redisConfigured = FALSE
    /\ redisClient = "null"
    /\ store = [k \in Keys |-> null]
    /\ now = MIN_REQUEST_INTERVAL_MS
    /\ lastRequestTime = 0
    /\ req = [r \in Requests |-> IdleRequest]
    /\ lastSend = -1
    /\ sendGap = -1
    /\ cacheOp = [pc |-> "unused"]
    /\ horizons = [pc |-> "unused"]
    /\ hook = [pc |-> "unused"]
    /\ orbit = [pc |-> "unused"]
    /\ loading = Effect(IdleLoading)

notLoading == <<redisConfigured, redisClient, store, now, lastRequestTime, req,
                lastSend, sendGap, cacheOp, horizons, hook, orbit>>

\* useEphemeris sets isLoading (useWebGLError.ts 227-231); page.tsx 63-66
FetchStarts ==
    /\ ~loading.isApiLoading /\ loading.fetches < MaxFetches
    /\ loading' = Rerender(loading, [loading EXCEPT !.isApiLoading = TRUE,
                                                    !.fetches = @ + 1])
    /\ UNCHANGED notLoading

\* useEphemeris stores records, from the API or the fallback file
\* (useWebGLError.ts 262-270, 329-340)
FetchDelivers ==
    /\ loading.isApiLoading
    /\ loading' = Rerender(loading, [loading EXCEPT !.isApiLoading = FALSE,
                                                    !.hasApiData = TRUE])
    /\ UNCHANGED notLoading

\* useEphemeris gives up on a timeout and keeps the data it had
\* (useWebGLError.ts 288-298)
FetchTimesOut ==
    /\ loading.isApiLoading
    /\ loading' = Rerender(loading, [loading EXCEPT !.isApiLoading = FALSE])
    /\ UNCHANGED notLoading

\* useLoadingProgress.ts 47-55: the interval fires
IntervalFires ==
    /\ loading.interval.active
    /\ LET count == loading.interval.count + 1
           done == count >= TOTAL_TEXTURES
       IN  loading' =
              Rerender(loading,
                       [loading EXCEPT
                          !.interval = [active |-> ~done, count |-> count],
                          !.texturesLoaded = count,
                          !.textureLoadingComplete = @ \/ done])
    /\ UNCHANGED notLoading

NextLoading ==
    \/ FetchStarts
    \/ FetchDelivers
    \/ FetchTimesOut
    \/ IntervalFires

SpecLoading == InitLoading /\ [][NextLoading]_vars

\* the browser fires a running interval again and again
SpecLoadingFair == SpecLoading /\ WF_vars(IntervalFires)

-----------------------------------------------------------------------------
(* Properties *)

Done(r) == req[r].pc = "done"
Count(seq, b) == Cardinality({k \in 1..Len(seq) : seq[k] = b})
Planets(bodyIds) == Range(bodyIds) \ {SUN}

\* C1: a body whose fetch returned null gets its own fallback record, a body
\* whose fetch succeeded in the same request keeps its fetched record, in
\* the fresh data and in the response
C1_PerBodyFallback ==
    \A r \in Requests, b \in Bodies :
        LET loc == req[r]
            fetched == NasaRecord(b, loc.requestedDate)
            InData(data) ==
                /\ b \in loc.fetchedNull =>
                      Count(data, FallbackRecord(b)) = 1 /\ Count(data, fetched) = 0
                /\ b \in loc.fetchedOk =>
                      Count(data, fetched) = 1 /\ Count(data, FallbackRecord(b)) = 0
        IN  /\ InData(loc.freshData)
            /\ Done(r) /\ ~loc.threw => InData(loc.response.data)

C1_Witness ==
    \E r \in Requests :
        /\ Done(r)
        /\ req[r].fetchedNull # {}
        /\ req[r].fetchedOk # {}
        /\ req[r].response.source = "NASA_LIVE"

\* C2: no record of the Fallback Catalog is passed to setCachedBulkEphemeris,
\* and no cache entry holds one
C2_FallbackNeverCached ==
    /\ \A r \in Requests : Range(req[r].toCache) \cap FallbackRecords = {}
    /\ \A k \in Keys : store[k] # null => store[k].value \notin FallbackRecords

\* C3: when there were no cache hits and every fetch of the request returned
\* null, the response has one fallback record per requested body and is
\* tagged FALLBACK_DATASET
C3_AllFailedIsFallback ==
    \A r \in Requests :
        LET loc == req[r] IN
        (/\ Done(r)
         /\ Len(loc.cached) = 0
         /\ loc.fetchedNull # {}
         /\ loc.fetchedNull = Range(loc.bodyIds))
        => /\ loc.response.status = 200
           /\ Len(loc.response.data) = Len(loc.bodyIds)
           /\ Range(loc.response.data) \subseteq FallbackRecords
           /\ loc.response.source = "FALLBACK_DATASET"

\* C4: without force, when the lookup reports no missing body the response is
\* the cached records tagged CACHE_HIT with cacheMisses = 0, and the request
\* made no fetch and no cache write
C4_AllHitsReturnCached ==
    \A r \in Requests :
        LET loc == req[r] IN
        (Done(r) /\ ~loc.forceRefresh /\ Len(loc.missing) = 0)
        => /\ loc.response.source = "CACHE_HIT"
           /\ loc.response.cacheMisses = 0
           /\ loc.response.cacheHits = Len(loc.bodyIds)
           /\ loc.response.data = loc.cached
           /\ {loc.cached[k].bodyId : k \in 1..Len(loc.cached)} = Range(loc.bodyIds)
           /\ loc.calls = <<>>
           /\ loc.toCache = <<>>
           /\ loc.freshData = <<>>

C4_Witness ==
    \E r \in Requests :
        /\ Done(r)
        /\ ~req[r].forceRefresh
        /\ Len(req[r].missing) = 0
        /\ Len(req[r].cached) >= 2

\* C5: a response tagged NASA_LIVE holds a record fetched successfully in
\* that request, and a response tagged CACHE_HIT holds every requested body,
\* all from the cache (the NASA_LIVE part is stated for the requests that
\* called the Source Client at all)
C5_SourceTagTruthful ==
    \A r \in Requests :
        LET loc == req[r] IN
        Done(r) =>
           /\ (loc.response.source = "NASA_LIVE" /\ loc.calls # <<>>) =>
                 \E b \in loc.fetchedOk :
                     Count(loc.response.data, NasaRecord(b, loc.requestedDate)) = 1
           /\ loc.response.source = "CACHE_HIT" =>
                 /\ loc.response.data = loc.cached
                 /\ Len(loc.cached) = Len(loc.bodyIds)

\* C6: every finished request has a 200 response with data and a source
\* tag, and when the handler's try block threw, the response is the
\* fallback records of all requested bodies tagged FALLBACK_DATASET
C6_AlwaysResponds ==
    \A r \in Requests :
        LET loc == req[r] IN
        Done(r) =>
           /\ loc.response.status = 200
           /\ loc.response.source \in {"NASA_LIVE", "CACHE_HIT", "FALLBACK_DATASET"}
           /\ loc.threw =>
                 /\ loc.response.source = "FALLBACK_DATASET"
                 /\ loc.response.data = getFallbackData(loc.bodyIds)
                 /\ {loc.response.data[k].bodyId : k \in 1..Len(loc.response.data)}
                       = Range(loc.bodyIds)
                 /\ Len(loc.response.data) = Len(loc.bodyIds)
           /\ loc.response.source = "FALLBACK_DATASET" => loc.threw

C6_Witness ==
    \E r \in Requests :
        /\ Done(r)
        /\ req[r].threw
        /\ ~IsValidDate(req[r].requestedDate)
        /\ Len(req[r].bodyIds) >= 2

\* C7 as stated, for any force: the second of two identical calls in
\* succession, with no TTL expiry in between, is tagged CACHE_HIT (taken
\* with a configured cache, a parseable date and no failing redis call)
C7_RepeatIsCacheHit ==
    \A r \in Requests :
        (/\ Done(r) /\ req[r].repeat /\ req[r].quiet
         /\ IsValidDate(req[r].requestedDate)
         /\ redisConfigured)
        => req[r].response.source = "CACHE_HIT"

\* C7 amended: with force = false, a configured cache, a parseable date and
\* no failing redis call, the second of two identical calls in succession
\* with no TTL expiry in between is tagged CACHE_HIT and fetches nothing
C7_RepeatIsCacheHitUnforced ==
    \A r \in Requests :
        (/\ Done(r) /\ req[r].repeat /\ req[r].quiet
         /\ ~req[r].forceRefresh
         /\ IsValidDate(req[r].requestedDate)
         /\ redisConfigured)
        => /\ req[r].response.source = "CACHE_HIT"
           /\ req[r].calls = <<>>

C7_Witness ==
    \E r \in Requests :
        /\ Done(r) /\ req[r].repeat /\ req[r].quiet
        /\ ~req[r].forceRefresh
        /\ IsValidDate(req[r].requestedDate)
        /\ redisConfigured
        /\ Planets(req[r].bodyIds) # {}
        /\ req[r].response.source = "CACHE_HIT"

\* C8: without Redis credentials, when no fetch failed, the response has one
\* record per requested body, none from the fallback, is tagged NASA_LIVE
\* and reports cacheHits = 0
C8_NoCacheStillLive ==
    \A r \in Requests :
        LET loc == req[r] IN
        (Done(r) /\ ~redisConfigured /\ ~loc.threw /\ loc.fetchedNull = {})
        => /\ loc.response.status = 200
           /\ loc.response.source = "NASA_LIVE"
           /\ loc.response.cacheHits = 0
           /\ Len(loc.response.data) = Len(loc.bodyIds)
           /\ \A b \in Range(loc.bodyIds) :
                 Count(loc.response.data,
                       IF b = SUN THEN SunRecord
                       ELSE NasaRecord(b, loc.requestedDate)) = 1

C8_Witness ==
    \E r \in Requests :
        /\ Done(r) /\ ~redisConfigured /\ ~req[r].threw
        /\ Cardinality(req[r].fetchedOk) >= 2

\* C9: in a finished request fetchBodyEphemeris was invoked exactly once for
\* each non-Sun body reported missing and never for a body reported cached
C9_OneFetchPerMiss ==
    \A r \in Requests :
        LET loc == req[r] IN
        Done(r) =>
           /\ \A b \in Planets(loc.missing) : Count(loc.calls, b) = 1
           /\ \A k \in 1..Len(loc.cached) : Count(loc.calls, loc.cached[k].bodyId) = 0

\* C10: the starts of two consecutive upstream calls are at least
\* MIN_REQUEST_INTERVAL_MS apart
C10_MinInterval == sendGap = -1 \/ sendGap >= MIN_REQUEST_INTERVAL_MS

\* C11: no call of the cache layer rejects; without a client or when the
\* store call throws, a get gives null, a set gives false and writes
\* nothing, a bulk get reports the affected bodies missing (all of them and
\* no hit when none could be read), and a bulk set completes
C11_CacheNeverThrows ==
    cacheOp.pc = "done" =>
        /\ ~cacheOp.rejected
        /\ (cacheOp.noClient \/ cacheOp.storeThrew) =>
              /\ cacheOp.op = "get" => cacheOp.data = null
              /\ cacheOp.op = "set" =>
                    /\ ~cacheOp.ok
                    /\ cacheOp.after = cacheOp.before
              /\ cacheOp.op = "getBulk" =>
                    /\ \A b \in Bodies :
                          cacheOp.outcome[b] = "threw" =>
                              Count(cacheOp.missing, b) = 1
                    /\ (cacheOp.noClient \/
                        \A b \in Range(cacheOp.bodyIds) :
                            cacheOp.outcome[b] = "threw") =>
                          /\ cacheOp.cached = <<>>
                          /\ Range(cacheOp.missing) = Range(cacheOp.bodyIds)
                          /\ Len(cacheOp.missing) = Len(cacheOp.bodyIds)

\* a bulk get of two stored bodies has ended with both redis.get calls thrown
C11_Witness ==
    /\ cacheOp.pc = "done"
    /\ cacheOp.op = "getBulk"
    /\ Len(cacheOp.bodyIds) = 2
    /\ \A b \in Range(cacheOp.bodyIds) :
          /\ cacheOp.outcome[b] = "threw"
          /\ store[getCacheKey(b, cacheOp.date)] # null

\* C12: when a bulk get has ended, each requested body is in cached or in
\* missing exactly once, in cached with its stored record exactly when its
\* own lookup found a record, whatever the order the lookups settled in
C12_EveryBodyOnce ==
    cacheOp.pc = "done" /\ cacheOp.op = "getBulk" =>
        \A b \in Bodies :
            LET hits == Cardinality({k \in 1..Len(cacheOp.cached) :
                                        cacheOp.cached[k].bodyId = b})
                misses == Count(cacheOp.missing, b)
                rec == NasaRecord(b, cacheOp.date)
            IN  /\ hits + misses = Count(cacheOp.bodyIds, b)
                /\ cacheOp.outcome[b] = "record" =>
                      hits = 1 /\ Count(cacheOp.cached, rec) = 1
                /\ cacheOp.outcome[b] \in {"nothing", "threw"} => misses = 1

\* the second requested body settled first with a record, the first one
\* threw afterwards
C12_Witness ==
    /\ cacheOp.pc = "done"
    /\ cacheOp.op = "getBulk"
    /\ Len(cacheOp.bodyIds) = 2
    /\ cacheOp.order = <<cacheOp.bodyIds[2], cacheOp.bodyIds[1]>>
    /\ cacheOp.outcome[cacheOp.bodyIds[2]] = "record"
    /\ cacheOp.outcome[cacheOp.bodyIds[1]] = "threw"

\* C13: no upstream fetch is invoked for the Sun, no cache lookup is made for
\* it, no store entry exists under a key of the Sun, and a request that asked
\* for the Sun answers with one Sun record at the origin
C13_SunSynthesized ==
    /\ \A d \in Dates : store[getCacheKey(SUN, d)] = null
    /\ \A r \in Requests :
          LET loc == req[r] IN
          /\ Count(loc.calls, SUN) = 0
          /\ SUN \notin loc.pending
          /\ Done(r) /\ ~loc.threw /\ SUN \in Range(loc.bodyIds) =>
                /\ Count(loc.response.data, SunRecord) = 1
                /\ SunRecord.position = <<"0", "0", "0">>

\* C14: a request with force=true makes no cache lookup, has fetched every
\* requested non-Sun body when it ends, and with a working cache leaves each
\* record of its answer in the store under the requested date
C14_ForceWritesThrough ==
    \A r \in Requests :
        LET loc == req[r] IN
        loc.forceRefresh =>
           /\ loc.pc # "lookup" /\ loc.pending = {} /\ loc.cached = <<>>
           /\ Done(r) =>
                 /\ Planets(loc.bodyIds) \subseteq loc.fetchedOk \cup loc.fetchedNull
                 /\ redisConfigured /\ loc.quiet =>
                       \A k \in 1..Len(loc.response.data) :
                           LET rec == loc.response.data[k]
                               key == getCacheKey(rec.bodyId, loc.requestedDate)
                           IN  store[key] # null /\ store[key].value = rec

\* C15: for a body without the $$SOE or without the $$EOE marker
\* parseVectorFromResponse returns null, and fetchBodyEphemeris given such a
\* body resolves to null, not to a record
C15_MissingMarkerIsNull ==
    LET sh == horizons.shape IN
    horizons.pc = "done" /\ (~sh.soe \/ ~sh.eoe) =>
        /\ horizons.op = "parse" => horizons.parsed = null
        /\ horizons.op = "fetchBody" /\ horizons.outcome = "result" =>
              ~horizons.rejected /\ horizons.returned = null

\* fetchBodyEphemeris has settled on a body that lacks only $$SOE and
\* carries a position line of three well-formed values
C15_Witness ==
    LET sh == horizons.shape IN
    /\ horizons.pc = "done" /\ horizons.op = "fetchBody"
    /\ horizons.outcome = "result"
    /\ ~sh.soe /\ sh.eoe /\ sh.pos
    /\ sh.x.kind = "sci" /\ sh.y.kind = "sci" /\ sh.z.kind = "sci"

\* C16: for a body with both markers and a position line on which the value
\* after X, Y or Z is not a number, parseVectorFromResponse returns null; no
\* returned position has a component that is not a number
C16_UnparsableIsNull ==
    LET sh == horizons.shape IN
    horizons.pc = "done" /\ horizons.op = "parse" =>
        /\ (sh.soe /\ sh.eoe /\ sh.pos /\
            "junk" \in {sh.x.kind, sh.y.kind, sh.z.kind}) =>
              horizons.parsed = null
        /\ horizons.parsed # null =>
              \A k \in 1..3 : horizons.parsed.position[k] # NaN

\* a block in Horizons layout whose Y value is "n.a." has been parsed
C16_Witness ==
    LET sh == horizons.shape IN
    /\ horizons.pc = "done" /\ horizons.op = "parse"
    /\ sh.soe /\ sh.eoe /\ ~sh.eoeFirst /\ sh.pos
    /\ sh.x.kind = "sci" /\ sh.y = NotAvailable /\ sh.z.kind = "sci"

WellFormed(sh) ==
    /\ sh.soe /\ sh.eoe /\ ~sh.eoeFirst /\ sh.pos
    /\ sh.x.kind = "sci" /\ sh.y.kind = "sci" /\ sh.z.kind = "sci"

\* C17: for a well-formed block with values (X, Y, Z) the position is
\* (X, Z, Y) times AU_TO_KM, the velocity of a well-formed velocity line is
\* (VX, VZ, VY) times AU_TO_KM / 86400, and X=1, Y=0, Z=0 gives (AU_TO_KM, 0, 0)
C17_AxisRemap ==
    LET sh == horizons.shape IN
    horizons.pc = "done" /\ horizons.op = "parse" /\ WellFormed(sh) =>
        /\ horizons.parsed # null
        /\ horizons.parsed.position =
              <<Mul(sh.x.value, AU_TO_KM), Mul(sh.z.value, AU_TO_KM),
                Mul(sh.y.value, AU_TO_KM)>>
        /\ sh.vel = "sci" =>
              horizons.parsed.velocity =
                 <<Mul(Zero.value, AU_PER_DAY_TO_KM_PER_SEC),
                   Mul(MinusTenth.value, AU_PER_DAY_TO_KM_PER_SEC),
                   Mul(One.value, AU_PER_DAY_TO_KM_PER_SEC)>>
        /\ sh.vel # "sci" => horizons.parsed.velocity = undefined
        /\ (sh.x = One /\ sh.y = Zero /\ sh.z = Zero) =>
              horizons.parsed.position = <<AU_TO_KM, Zero.value, Zero.value>>

\* a well-formed block with X=1, Y=0, Z=-0.1 and a velocity line has been
\* parsed
C17_Witness ==
    LET sh == horizons.shape IN
    /\ horizons.pc = "done" /\ horizons.op = "parse" /\ WellFormed(sh)
    /\ sh.x = One /\ sh.y = Zero /\ sh.z = MinusTenth /\ sh.vel = "sci"
    /\ horizons.parsed # null

\* C18: a finished fetchBodyEphemeris has resolved, to a record or to null,
\* and to null for each kind of failure; a finished fetchAllEphemeris has
\* resolved to the Sun and the records of exactly the bodies that succeeded
C18_NeverRejects ==
    horizons.pc = "done" =>
        /\ ~horizons.rejected
        /\ horizons.op = "fetchBody" /\ horizons.outcome # "result" =>
              horizons.returned = null
        /\ horizons.op = "fetchAll" =>
              /\ horizons.okBodies \cup horizons.nullBodies
                    = Planets(horizons.bodyIds)
              /\ {horizons.returned[k].bodyId : k \in 1..Len(horizons.returned)}
                    = {SUN} \cup horizons.okBodies

\* C19: the data the hook exposes after reading a response are the valid
\* records of that response, unchanged and in order, and the fallback
\* dataset is never loaded by a call that has read records of a response
C19_InvalidDropped ==
    /\ hook.writer.kind = "data" =>
          hook.state.data = validateData(hook.writer.raw)
    /\ hook.writer.kind = "fallback" => hook.writer.raw = <<>>

\* C20: no call runs beyond retry attempt MAX_RETRIES, and TIMEOUT_ERROR set
\* by a call that its own timeout aborted is set at retry attempt MAX_RETRIES
C20_TimeoutRetried ==
    /\ \A i \in 1..MaxCalls : hook.inv[i].retryAttempt <= MAX_RETRIES
    /\ (hook.state.error = TimeoutError /\ hook.errorOwnTimeout) =>
          hook.errorAttempt = MAX_RETRIES

\* C21: every entry of the store carries the TTL of the speed tier of its
\* body: 3600 s for '399' and '301', 86400 s for '599', '699', '799' and
\* '899', 21600 s for every other id; the three values are in that order, and
\* no entry carries another value
C21_TtlByTier ==
    /\ \A k \in Keys :
          store[k] # null =>
             /\ store[k].ex = (IF k[2] \in {"399", "301"} THEN 3600
                               ELSE IF k[2] \in {"599", "699", "799", "899"}
                               THEN 86400
                               ELSE 21600)
             /\ store[k].ex \in {3600, 21600, 86400}
    /\ \A b \in {"399", "301"} : getTTL(b) = 3600
    /\ \A b \in {"599", "699", "799", "899"} : getTTL(b) = 86400
    /\ \A b \in {"10", "199", "299", "499"} : getTTL(b) = 21600
    /\ TTL_FAST_BODIES < TTL_INNER_PLANETS /\ TTL_INNER_PLANETS < TTL_SLOW_PLANETS

\* the store holds a body of each tier, the last of them written by a bulk set
C21_Witness ==
    /\ cacheOp.pc = "done" /\ cacheOp.op = "setBulk"
    /\ \A b \in {"10", "399", "599"} :
          store[getCacheKey(b, "2024-01-15")] # null
    /\ store[getCacheKey("399", "2024-01-15")].ex = 3600
    /\ store[getCacheKey("10", "2024-01-15")].ex = 21600
    /\ store[getCacheKey("599", "2024-01-15")].ex = 86400

\* C22: over all calls of the cache layer at most one Redis instance is
\* constructed, every instance getRedisClient returns is the stored one, and
\* a call that gets null (no credentials, or the constructor threw) does not
\* reject and leaves the stored handle unset
C22_OneClient ==
    cacheOp.pc # "idle" =>
       /\ cacheOp.made <= 1
       /\ Cardinality(cacheOp.handles) <= 1
       /\ cacheOp.handles \subseteq {redisClient}
       /\ redisClient # "null" <=> cacheOp.made = 1
       /\ ~redisConfigured => cacheOp.redis = "null"
       /\ cacheOp.redis = "null" => redisClient = "null" /\ ~cacheOp.rejected

\* the constructor threw in one call, a later call constructed the client
\* and stored a record, and a get after it read the record through the
\* same client
C22_Witness ==
    /\ cacheOp.pc = "done" /\ cacheOp.op = "get"
    /\ cacheOp.threw
    /\ cacheOp.made = 1
    /\ cacheOp.redis = redisClient
    /\ cacheOp.data # null

\* C23: the data a call begun by refresh() (or a retry of it) has loaded is
\* never tagged CACHE_HIT
C23_RefreshBypassesCache ==
    (hook.writer.kind = "data" /\ hook.writer.origin = "refresh") =>
       hook.state.source # "CACHE_HIT"

-----------------------------------------------------------------------------
(* OrbitLine: the path *)

\* the square of the distance of a point from the origin, in millionths
DistanceSq(p) == SqMillionths(p.x) + SqMillionths(p.y) + SqMillionths(p.z)

\* the square of a * (10 + tenths) / 10, in millionths
RadiusSq(a, tenths) == a * a * (10 + tenths) * (10 + tenths) * 10000

\* C24: every point of the path OrbitLine generates lies at a distance from
\* the origin between a(1-e) and a(1+e) inclusive, both distances are
\* attained, and for e = 0 every point is at distance a.
C24_PathBetweenApsides ==
    orbit.pc = "rendered" =>
       /\ Len(orbit.points) = orbit.segments + 1
       /\ \A k \in 1..Len(orbit.points) :
             /\ RadiusSq(orbit.semiMajorAxis, -orbit.eccentricity.n)
                   <= DistanceSq(orbit.points[k])
             /\ DistanceSq(orbit.points[k])
                   <= RadiusSq(orbit.semiMajorAxis, orbit.eccentricity.n)
       /\ \E k \in 1..Len(orbit.points) :
             DistanceSq(orbit.points[k])
                = RadiusSq(orbit.semiMajorAxis, -orbit.eccentricity.n)
       /\ \E k \in 1..Len(orbit.points) :
             DistanceSq(orbit.points[k])
                = RadiusSq(orbit.semiMajorAxis, orbit.eccentricity.n)
       /\ orbit.eccentricity.n = 0 =>
             \A k \in 1..Len(orbit.points) :
                DistanceSq(orbit.points[k]) = RadiusSq(orbit.semiMajorAxis, 0)

C24_Witness ==
    /\ orbit.pc = "rendered"
    /\ orbit.semiMajorAxis = 2
    /\ orbit.eccentricity = Rational(5, 10)
    /\ DistanceSq(orbit.points[1]) = 1000000
    /\ DistanceSq(orbit.points[65]) = 9000000
    /\ DistanceSq(orbit.points[33]) = 4000000

\* C25: OrbitLine orients the path by exactly three nested rotations,
\* outermost first: about Y by the longitude of the ascending node, about X
\* by the inclination, about Y by longPerihelion - longAscNode; so a point
\* of the path is turned about Y by the argument of perihelion first, then
\* tilted about X, then turned about Y by the node.
C25_ThreeNestedRotations ==
    orbit.pc = "rendered" =>
       /\ Len(orbit.groups) = 3
       /\ orbit.groups[1] = <<0, degToRad(orbit.longAscNode), 0>>
       /\ orbit.groups[2] = <<degToRad(orbit.inclination), 0, 0>>
       /\ orbit.groups[3] =
             <<0, degToRad(orbit.longPerihelion - orbit.longAscNode), 0>>
       /\ \A k \in 1..Len(orbit.points) :
             ToWorld(orbit.groups, orbit.points[k])
                = RotateY(degToRad(orbit.longAscNode),
                     RotateX(degToRad(orbit.inclination),
                        RotateY(degToRad(orbit.longPerihelion)
                                   - degToRad(orbit.longAscNode),
                                orbit.points[k])))

C25_Witness ==
    /\ orbit.pc = "rendered"
    /\ orbit.renders = 1
    /\ orbit.longAscNode = 90 /\ orbit.inclination = 90 /\ orbit.longPerihelion = 0
    /\ orbit.semiMajorAxis = 1 /\ orbit.eccentricity = Rational(0, 10)
    /\ orbit.points[1] = [x |-> Rational(1000, 1000), y |-> Rational(0, 1),
                          z |-> Rational(0, 1000)]
    /\ ToWorld(orbit.groups, orbit.points[1])
          = [x |-> Rational(0, 1), y |-> Rational(-1000, 1000),
             z |-> Rational(0, 1000)]

-----------------------------------------------------------------------------
(* useEphemeris: superseded requests *)

\* no invocation of fetchEphemeris is in flight, waiting to retry or
\* importing the fallback data
Quiescent ==
    \A i \in 1..MaxCalls : hook.inv[i].pc \in {"unused", "done"}

\* C26: once a newer request has begun, an older request and its retries
\* never abort the newer request, never fetch again and never write state;
\* when nothing is pending the state holds the result of the most recently
\* started request, which is for the current date.
C26_SupersededRequestsInert ==
    /\ ~hook.staleAbort
    /\ \A i, j \in 1..hook.made : i < j => hook.calls[i] <= hook.calls[j]
    /\ ~hook.staleWrite
    /\ (Quiescent /\ hook.autoFetch /\ hook.state.error # TimeoutError
           /\ hook.writer.kind # "none") =>
          /\ hook.writer.call = hook.userCalls
          /\ hook.writer.date = hook.date

-----------------------------------------------------------------------------
(* useEphemeris: retries and the fallback *)

\* the fetch of invocation i fails with a retryable error that is no abort
RetryableFailure(i) ==
    \E o \in (Responses \cup Failures) \ {Failure("bad_format")} :
       /\ o.kind = "ok" => validateData(o.data) = <<>>
       /\ FetchSettle(i, o)

\* the state after the fallback was loaded for an invocation of the given error
FallbackState(error) ==
    [data |-> loadFallbackData, isLoading |-> FALSE, error |-> error,
     source |-> "FALLBACK_DATASET", isFallback |-> TRUE]

C28_FallbackFlagMatchesSource ==
    hook.state.isFallback <=> hook.state.source = "FALLBACK_DATASET"

C28_Witness ==
    /\ hook.state.isFallback /\ hook.state.source = "FALLBACK_DATASET"
    /\ hook.writer.kind = "data"
    /\ hook.state.error = TimeoutError
    /\ hook.made = 3

-----------------------------------------------------------------------------
(* useLoadingProgress: progress *)

\* C29: if from some point on the API data stays available with loading
\* finished, the stage eventually is 'ready', also when a fetch began while
\* the texture interval was running.
C29_EventuallyReady ==
    <>[](loading.hasApiData /\ ~loading.isApiLoading) => <>(stage(loading) = "ready")

-----------------------------------------------------------------------------
(* GET handler: completeness of a response *)

\* C30: for a request of distinct catalog ids, every response of the GET
\* handler holds exactly one record per requested body, whatever its source
\* and whichever of cache, fetch and fallback produced its records.
C30_OneRecordPerBody ==
    \A r \in Requests :
        LET loc == req[r]
            data == loc.response.data
        IN  Done(r) =>
               /\ Len(data) = Len(loc.bodyIds)
               /\ \A b \in Range(loc.bodyIds) :
                     Cardinality({k \in 1..Len(data) : data[k].bodyId = b}) = 1
               /\ \A k \in 1..Len(data) : data[k].bodyId \in Range(loc.bodyIds)

C30_Witness ==
    \E r \in Requests :
        /\ Done(r)
        /\ req[r].bodyIds = ALL_PLANET_IDS
        /\ req[r].response.source = "NASA_LIVE"
        /\ Len(req[r].cached) = 1
        /\ req[r].fetchedNull # {}
        /\ Len(req[r].response.data) = Len(ALL_PLANET_IDS)

====
